---- MODULE Spec2Model ----
(***************************************************************************)
(* A model of dynantic: the DynamoDB object-mapping layer.                 *)
(*                                                                         *)
(* Python values are modelled as tagged triples <<type, a, b>>:            *)
(*   <<"int", w, 0>>       the integer w                                   *)
(*   <<"float", w, f>>     a binary float, f = 0 (w.0) or 1 (w.5)          *)
(*   <<"decimal", w, f>>   a Decimal, f = 0, 1 (w.5) or 2 (w.5000...01,    *)
(*                         more digits than a binary float holds)          *)
(*   <<"str", s, 0>>       the string s                                    *)
(*   <<"bool", b, 0>>      False (b = 0) or True (b = 1)                   *)
(*   <<"set", s, 0>>       the set {s} of one string                       *)
(*   <<"nset", e, 0>>      the set {e} of one number e, or the empty set   *)
(*                         set() when e = <<>>                             *)
(*   <<"list", l, 0>>      the list of the values of the sequence l        *)
(*   <<"dict", d, 0>>      the dict of the function d                      *)
(*   <<"none", 0, 0>>      None                                            *)
(* DynamoDB wire values are <<"N", w, f>> (decimal-exact text),            *)
(* <<"S", s, 0>>, <<"BOOL", b, 0>>, <<"SS", s, 0>>, <<"NULL", 0, 0>>,       *)
(* <<"NS", w, 0>> (w a wire number, or <<>>), <<"L", l, 0>>, <<"M", d, 0>>.*)
(* Items and key maps are functions from attribute names to values.        *)
(***************************************************************************)
EXTENDS Integers, Sequences, FiniteSets, TLC

\* ---------------------------------------------------------------- bounds
MaxItems == 2
MaxLimit == 2
MaxDepth == 2
MaxActions == 2
MaxRequests == 3
MaxPages == 4
MaxNesting == 2

\* ------------------------------------------------------------ map helpers
EmptyMap == [x \in {} |-> 0]

\* dict.update / {**a, **b}: the right operand wins on a shared key
Merge(a, b) ==
  [x \in (DOMAIN a) \cup (DOMAIN b) |-> IF x \in DOMAIN b THEN b[x] ELSE a[x]]

Put(m, k, v) == Merge(m, [x \in {k} |-> v])

\* dict.get(k, default)
Arg(req, k, default) == IF k \in DOMAIN req THEN req[k] ELSE default

\* ------------------------------------------------------------- serializer
None == <<"none", 0, 0>>
PyInt(n) == <<"int", n, 0>>
PyStr(s) == <<"str", s, 0>>
PyBool(b) == <<"bool", b, 0>>
PySet(s) == <<"set", s, 0>>

PyFloat(w, f) == <<"float", w, f>>
PyNumSet(e) == <<"nset", e, 0>>
EmptySet == <<"nset", <<>>, 0>>
PyList(l) == <<"list", l, 0>>
PyDict(d) == <<"dict", d, 0>>

\* Python truthiness of a value (used by the code's `if x:` tests)
Truthy(v) ==
  CASE v[1] = "none" -> FALSE
    [] v[1] = "str" -> v[2] # ""
    [] v[1] = "set" -> TRUE
    [] v[1] \in {"nset", "list"} -> v[2] # <<>>
    [] v[1] = "dict" -> DOMAIN v[2] # {}
    [] OTHER -> ~(v[2] = 0 /\ v[3] = 0)

\* _prepare_for_dynamo: float -> Decimal(str(value)); a set, a list and a
\* dict are rebuilt from their prepared members; Decimal, int, str, bool
\* and None pass through unchanged
RECURSIVE PrepareForDynamo(_)
PrepareForDynamo(v) ==
  CASE v[1] = "float" -> <<"decimal", v[2], v[3]>>
    [] v[1] = "nset" ->
         <<"nset", IF v[2] = <<>> THEN <<>> ELSE PrepareForDynamo(v[2]), 0>>
    [] v[1] = "list" ->
         <<"list", [i \in DOMAIN v[2] |-> PrepareForDynamo(v[2][i])], 0>>
    [] v[1] = "dict" ->
         <<"dict", [k \in DOMAIN v[2] |-> PrepareForDynamo(v[2][k])], 0>>
    [] OTHER -> v

\* boto3 TypeSerializer.serialize on a prepared value; a set whose members
\* are all numbers is a number set, and that includes the set without
\* members ({"NS": []})
RECURSIVE TypeSerialize(_)
TypeSerialize(v) ==
  CASE v[1] = "str" -> <<"S", v[2], 0>>
    [] v[1] = "bool" -> <<"BOOL", v[2], 0>>
    [] v[1] = "set" -> <<"SS", v[2], 0>>
    [] v[1] = "none" -> <<"NULL", 0, 0>>
    [] v[1] = "nset" ->
         <<"NS", IF v[2] = <<>> THEN <<>> ELSE TypeSerialize(v[2]), 0>>
    [] v[1] = "list" -> <<"L", [i \in DOMAIN v[2] |-> TypeSerialize(v[2][i])], 0>>
    [] v[1] = "dict" -> <<"M", [k \in DOMAIN v[2] |-> TypeSerialize(v[2][k])], 0>>
    [] OTHER -> <<"N", v[2], v[3]>>

\* to_dynamo_value
ToDynamoValue(v) == TypeSerialize(PrepareForDynamo(v))

\* boto3 TypeDeserializer.deserialize: N -> Decimal, S -> str, NS -> a set
\* of Decimal, L -> list, M -> dict, ...
RECURSIVE TypeDeserialize(_)
TypeDeserialize(w) ==
  CASE w[1] = "S" -> <<"str", w[2], 0>>
    [] w[1] = "BOOL" -> <<"bool", w[2], 0>>
    [] w[1] = "SS" -> <<"set", w[2], 0>>
    [] w[1] = "NULL" -> <<"none", 0, 0>>
    [] w[1] = "NS" ->
         <<"nset", IF w[2] = <<>> THEN <<>> ELSE TypeDeserialize(w[2]), 0>>
    [] w[1] = "L" -> <<"list", [i \in DOMAIN w[2] |-> TypeDeserialize(w[2][i])], 0>>
    [] w[1] = "M" -> <<"dict", [k \in DOMAIN w[2] |-> TypeDeserialize(w[2][k])], 0>>
    [] OTHER -> <<"decimal", w[2], w[3]>>

\* _restore_to_python: a Decimal with zero fractional part becomes int, any
\* other Decimal becomes float (nearest binary float); lists and dicts are
\* rebuilt from their restored members, every other value (a set included)
\* is returned as it is
RECURSIVE RestoreToPython(_)
RestoreToPython(v) ==
  CASE v[1] = "decimal" ->
         IF v[3] = 0 THEN <<"int", v[2], 0>> ELSE <<"float", v[2], 1>>
    [] v[1] = "list" -> <<"list", [i \in DOMAIN v[2] |-> RestoreToPython(v[2][i])], 0>>
    [] v[1] = "dict" -> <<"dict", [k \in DOMAIN v[2] |-> RestoreToPython(v[2][k])], 0>>
    [] OTHER -> v

\* `isinstance(v, (set, frozenset)) and len(v) == 0`
IsEmptySet(v) == v[1] = "nset" /\ v[2] = <<>>

\* to_dynamo: the dict is prepared, each of its fields is serialized, and a
\* field whose prepared value is an empty set is left out of the result
ToDynamo(data) ==
  [k \in {f \in DOMAIN data : ~IsEmptySet(PrepareForDynamo(data[f]))} |->
     TypeSerialize(PrepareForDynamo(data[k]))]

\* from_dynamo
FromDynamo(item) == [k \in DOMAIN item |-> RestoreToPython(TypeDeserialize(item[k]))]

\* ------------------------------------------------------------- conditions
\* DynCondition trees (conditions.py): comparison leaves and And/Or/Not
Eq(f, v) == [op |-> "=", field |-> f, value |-> v]
AttrNotExists(f) == [op |-> "attribute_not_exists", field |-> f]
AttrExists(f) == [op |-> "attribute_exists", field |-> f]
CondAnd(l, r) == [op |-> "AND", left |-> l, right |-> r]
CondOr(l, r) == [op |-> "OR", left |-> l, right |-> r]
CondNot(c) == [op |-> "NOT", left |-> c]

\* expression tokens
Tok(s) == [t |-> s]
CmpTok(o, n, v) == [t |-> "cmp", op |-> o, name |-> n, val |-> v]
FnTok(fn, n) == [t |-> fn, name |-> n]
BetweenTok(n, lo, hi) == [t |-> "between", name |-> n, low |-> lo, high |-> hi]
BeginsTok(n, v) == [t |-> "begins_with", name |-> n, val |-> v]

\* boto3's placeholder names: '#n{k}' and ':v{k}'
NamePlaceholder(k) == <<"#n0", "#n1", "#n2", "#n3", "#n4", "#n5">>[k + 1]
ValuePlaceholder(k) == <<":v0", ":v1", ":v2", ":v3", ":v4", ":v5">>[k + 1]

\* And / Or are formatted '({0} {operator} {1})', Not '({operator} {0})'
FormatBinary(l, o, r) == <<Tok("(")>> \o l \o <<Tok(o)>> \o r \o <<Tok(")")>>

\* ConditionExpressionBuilder.build_expression: one fresh name placeholder
\* per attribute and one fresh value placeholder per operand, numbered from
\* 0 in the order the condition tree is walked (left to right)
RECURSIVE NameCount(_)
NameCount(c) ==
  CASE c.op \in {"AND", "OR"} -> NameCount(c.left) + NameCount(c.right)
    [] c.op = "NOT" -> NameCount(c.left)
    [] OTHER -> 1

RECURSIVE ValueCount(_)
ValueCount(c) ==
  CASE c.op \in {"AND", "OR"} -> ValueCount(c.left) + ValueCount(c.right)
    [] c.op = "NOT" -> ValueCount(c.left)
    [] c.op \in {"attribute_exists", "attribute_not_exists"} -> 0
    [] OTHER -> 1

\* the expression string of c, its placeholders numbered from nc and vc
RECURSIVE BuildExpression(_, _, _)
BuildExpression(c, nc, vc) ==
  CASE c.op \in {"AND", "OR"} ->
         FormatBinary(BuildExpression(c.left, nc, vc), c.op,
                      BuildExpression(c.right, nc + NameCount(c.left),
                                      vc + ValueCount(c.left)))
    [] c.op = "NOT" ->
         <<Tok("("), Tok("NOT")>> \o BuildExpression(c.left, nc, vc) \o <<Tok(")")>>
    [] c.op \in {"attribute_exists", "attribute_not_exists"} ->
         <<FnTok(c.op, NamePlaceholder(nc))>>
    [] OTHER ->
         <<CmpTok(c.op, NamePlaceholder(nc), ValuePlaceholder(vc))>>

\* attribute_name_placeholders
RECURSIVE BuildNames(_, _)
BuildNames(c, nc) ==
  CASE c.op \in {"AND", "OR"} ->
         Merge(BuildNames(c.left, nc), BuildNames(c.right, nc + NameCount(c.left)))
    [] c.op = "NOT" -> BuildNames(c.left, nc)
    [] OTHER -> [x \in {NamePlaceholder(nc)} |-> c.field]

\* attribute_value_placeholders
RECURSIVE BuildValues(_, _)
BuildValues(c, vc) ==
  CASE c.op \in {"AND", "OR"} ->
         Merge(BuildValues(c.left, vc), BuildValues(c.right, vc + ValueCount(c.left)))
    [] c.op = "NOT" -> BuildValues(c.left, vc)
    [] c.op \in {"attribute_exists", "attribute_not_exists"} -> EmptyMap
    [] OTHER -> [x \in {ValuePlaceholder(vc)} |-> ToDynamoValue(c.value)]

\* compile_condition: the expression plus its placeholder maps, the values
\* serialized through to_dynamo_value
CompileCondition(c) ==
  [ConditionExpression |-> BuildExpression(c, 0, 0),
   ExpressionAttributeNames |-> BuildNames(c, 0),
   ExpressionAttributeValues |-> BuildValues(c, 0)]

\* ------------------------------------------------ the store's expressions
\* numeric order of two wire numbers
Rank(w) == w[2] * 3 + w[3]

WireLess(a, b) == a[1] = "N" /\ b[1] = "N" /\ Rank(a) < Rank(b)
WireEq(a, b) == a = b

\* one leaf of a condition, filter or key-condition expression evaluated on
\* an item, the placeholders resolved through the request's maps
EvalLeaf(tok, item, names, values) ==
  LET attr == names[tok.name]
      has == attr \in DOMAIN item
  IN CASE tok.t = "attribute_exists" -> has
       [] tok.t = "attribute_not_exists" -> ~has
       [] tok.t = "between" ->
            /\ has
            /\ WireLess(values[tok.low], item[attr]) \/ WireEq(values[tok.low], item[attr])
            /\ WireLess(item[attr], values[tok.high]) \/ WireEq(item[attr], values[tok.high])
       [] tok.op = "=" -> has /\ WireEq(item[attr], values[tok.val])
       [] tok.op = "<>" -> ~(has /\ WireEq(item[attr], values[tok.val]))
       [] tok.op = "<" -> has /\ WireLess(item[attr], values[tok.val])
       [] tok.op = "<=" ->
            has /\ (WireLess(item[attr], values[tok.val]) \/ WireEq(item[attr], values[tok.val]))
       [] tok.op = ">" -> has /\ WireLess(values[tok.val], item[attr])
       [] OTHER ->
            has /\ (WireLess(values[tok.val], item[attr]) \/ WireEq(item[attr], values[tok.val]))

\* DynamoDB's expression grammar: parentheses, then NOT, then AND, then OR.
\* Each parser returns [v |-> truth value, i |-> next token position].
RECURSIVE ParseOr(_, _, _, _, _), OrTail(_, _, _, _, _, _)
RECURSIVE ParseAnd(_, _, _, _, _), AndTail(_, _, _, _, _, _)
RECURSIVE ParseNot(_, _, _, _, _)

ParseNot(toks, i, item, names, values) ==
  CASE toks[i].t = "NOT" ->
         LET r == ParseNot(toks, i + 1, item, names, values)
         IN [v |-> ~r.v, i |-> r.i]
    [] toks[i].t = "(" ->
         LET r == ParseOr(toks, i + 1, item, names, values)
         IN [v |-> r.v, i |-> r.i + 1]
    [] OTHER -> [v |-> EvalLeaf(toks[i], item, names, values), i |-> i + 1]

AndTail(acc, toks, i, item, names, values) ==
  IF i <= Len(toks) /\ toks[i].t = "AND"
  THEN LET r == ParseNot(toks, i + 1, item, names, values)
       IN AndTail(acc /\ r.v, toks, r.i, item, names, values)
  ELSE [v |-> acc, i |-> i]

ParseAnd(toks, i, item, names, values) ==
  LET l == ParseNot(toks, i, item, names, values)
  IN AndTail(l.v, toks, l.i, item, names, values)

OrTail(acc, toks, i, item, names, values) ==
  IF i <= Len(toks) /\ toks[i].t = "OR"
  THEN LET r == ParseAnd(toks, i + 1, item, names, values)
       IN OrTail(acc \/ r.v, toks, r.i, item, names, values)
  ELSE [v |-> acc, i |-> i]

ParseOr(toks, i, item, names, values) ==
  LET l == ParseAnd(toks, i, item, names, values)
  IN OrTail(l.v, toks, l.i, item, names, values)

\* an expression evaluated on an item
EvalExpression(toks, item, names, values) ==
  ParseOr(toks, 1, item, names, values).v


\* ------------------------------------------------------------- exceptions
\* faults the request executor can raise: botocore's ClientError carrying a
\* service error code, and botocore errors that are not a ClientError
ErrorResponse(code, message) == [Error |-> [Code |-> code, Message |-> message]]

\* ClientError(error_response, operation_name); messages are sequences of
\* text parts
ClientErrorOf(response) == [response |-> response, cls |-> "ClientError"]
ClientError(code) == ClientErrorOf(ErrorResponse(code, <<"message">>))
EndpointConnectionError == [response |-> EmptyMap, cls |-> "EndpointConnectionError"]

ErrorCodes ==
  {"ResourceNotFoundException", "ConditionalCheckFailedException",
   "ProvisionedThroughputExceededException", "ThrottlingException",
   "RequestLimitExceeded", "ValidationException", "SerializationException",
   "ItemCollectionSizeLimitExceededException", "TransactionConflictException",
   "RequestTimeout", "RequestTimeoutException", "InternalServerError"}

\* the library's error taxonomy (every class derives from DynanticError)
DynanticErrors ==
  {"DynanticError", "TableNotFoundError", "ItemNotFoundError",
   "ConditionalCheckFailedError", "ProvisionedThroughputExceededError",
   "ItemCollectionSizeLimitError", "TransactionConflictError",
   "RequestTimeoutError", "ValidationError", "DynamoSerializationError"}

\* e.response.get("Error", {})
ErrorOf(e) == IF "Error" \in DOMAIN e.response THEN e.response.Error ELSE EmptyMap

\* str(e) of a ClientError: botocore's 'An error occurred ({code}) ...:
\* {message}', each 'Unknown' when the response lacks it
StrOfClientError(e) ==
  <<"An error occurred", Arg(ErrorOf(e), "Code", "Unknown")>>
    \o Arg(ErrorOf(e), "Message", <<"Unknown">>)

\* error_code and error_message of handle_dynamo_errors
ErrorCode(e) == Arg(ErrorOf(e), "Code", "Unknown")
ErrorMessage(e) == Arg(ErrorOf(e), "Message", StrOfClientError(e))

\* DynanticError.__init__(message, original_error)
Raise(type, message, orig) ==
  [type |-> type, message |-> message, original_error |-> orig]

\* a translation of timeouts to the generic error
TimeoutCodes == {}

\* the codes of `if error_code in ("RequestTimeout", "RequestTimeoutException")`
RequestTimeoutCodes == {"RequestTimeout", "RequestTimeoutException"}

\* the except clause of handle_dynamo_errors(table_name)
TranslateClientError(table_name, e) ==
  CASE ErrorCode(e) = "ResourceNotFoundException" ->
         Raise("TableNotFoundError",
               <<"Table not found",
                 IF Truthy(table_name) THEN table_name[2] ELSE "unknown">>, e)
    [] ErrorCode(e) = "ConditionalCheckFailedException" ->
         Raise("ConditionalCheckFailedError", <<"Conditional check failed">>, e)
    [] ErrorCode(e) \in {"ProvisionedThroughputExceededException",
                         "ThrottlingException", "RequestLimitExceeded"} ->
         Raise("ProvisionedThroughputExceededError", ErrorMessage(e), e)
    [] ErrorCode(e) \in {"ValidationException", "SerializationException"} ->
         Raise("ValidationError", ErrorMessage(e), e)
    [] ErrorCode(e) = "ItemCollectionSizeLimitExceededException" ->
         Raise("ItemCollectionSizeLimitError", ErrorMessage(e), e)
    [] ErrorCode(e) = "TransactionConflictException" ->
         Raise("TransactionConflictError", ErrorMessage(e), e)
    [] ErrorCode(e) \in RequestTimeoutCodes ->
         Raise("RequestTimeoutError", ErrorMessage(e), e)
    [] OTHER ->
         Raise("DynanticError", <<"DynamoDB error", ErrorCode(e)>> \o ErrorMessage(e), e)

\* handle_dynamo_errors: `except ClientError` translates; an exception of
\* any other class leaves the with-block as it is
HandleDynamoErrors(table_name, e) ==
  IF e.cls = "ClientError" THEN TranslateClientError(table_name, e)
  ELSE [type |-> e.cls, original_error |-> e]

NoError == [type |-> "none"]

\* ------------------------------------------------------------------ schema
\* A polymorphic table: Base declares pk = Key(), sk = SortKey() and
\* type = Discriminator(); A and B are registered under "A" and "B".
Classes == {"Base", "A", "B"}

\* GSIDefinition
GSIDefinition(index_name, pk_name, sk_name) ==
  [index_name |-> index_name, pk_name |-> pk_name, sk_name |-> sk_name]

\* A table of its own without sort key: Plain declares pk = Key(),
\* ref = GSIKey("by_ref") and GSIKey("by_date"), date = GSISortKey("by_date")
PlainMeta ==
  [table_name |-> "plain", pk_name |-> "pk", sk_name |-> None,
   discriminator_field |-> None, is_base_entity |-> FALSE,
   discriminator_value |-> None,
   gsi_definitions |->
     [by_ref |-> GSIDefinition("by_ref", "ref", None),
      by_date |-> GSIDefinition("by_date", "ref", PyStr("date"))]]

EntityRegistry == [v \in {"A", "B"} |-> v]

\* ModelOptions of a class (the metaclass's inherited options, then
\* register()'s discriminator_value)
Meta(cls) ==
  IF cls = "Plain" THEN PlainMeta
  ELSE [table_name |-> "table", pk_name |-> "pk", sk_name |-> PyStr("sk"),
        discriminator_field |-> PyStr("type"),
        is_base_entity |-> (cls = "Base"),
        discriminator_value |-> IF cls = "Base" THEN None ELSE PyStr(cls),
        gsi_definitions |-> EmptyMap]

\* ModelOptions.has_gsi / get_gsi, for the index name a caller passes
HasGsi(config, index_name) ==
  index_name[1] = "str" /\ index_name[2] \in DOMAIN config.gsi_definitions

GetGsi(config, index_name) == config.gsi_definitions[index_name[2]]

\* _deserialize_item of class cls with options config, whose entity_registry
\* holds registry: a polymorphic base resolves the registered subtype of the
\* item's discriminator, every other class instantiates itself
ResolveEntity(config, registry, cls, raw_data) ==
  LET field == config.discriminator_field[2]
      dv == IF field \in DOMAIN raw_data THEN raw_data[field] ELSE None
  IN IF config.is_base_entity /\ Truthy(config.discriminator_field)
        /\ Truthy(dv) /\ dv[1] = "str" /\ dv[2] \in DOMAIN registry
     THEN [cls |-> registry[dv[2]], data |-> raw_data]
     ELSE [cls |-> cls, data |-> raw_data]

DeserializeItem(cls, raw_data) ==
  ResolveEntity(Meta(cls), EntityRegistry, cls, raw_data)

\* ------------------------------------------------------- query/scan builder
NoCondition == [op |-> "none"]

\* DynamoQueryBuilder._add_discriminator_filter (and the scan builder's)
AddDiscriminatorFilter(b) ==
  LET config == Meta(b.model_cls)
  IN [b EXCEPT
        !.filter_conditions = Append(@, <<CmpTok("=", "#disc", ":disc_val")>>),
        !.filter_names = Put(@, "#disc", config.discriminator_field[2]),
        !.filter_values = Put(@, ":disc_val", ToDynamoValue(config.discriminator_value))]

\* a builder that never adds the discriminator filter
WithoutDiscriminator(b) == b

\* the auto-added discriminator filter of a registered subtype
WithDiscriminator(b) ==
  LET config == Meta(b.model_cls)
  IN IF Truthy(config.discriminator_value) /\ Truthy(config.discriminator_field)
     THEN AddDiscriminatorFilter(b)
     ELSE b

\* the keys a query builder resolves: the index's `if index_name:`, else the
\* table's
ResolvedKeys(cls, index_name) ==
  IF Truthy(index_name)
  THEN [pk_name |-> GetGsi(Meta(cls), index_name).pk_name,
        sk_name |-> GetGsi(Meta(cls), index_name).sk_name]
  ELSE [pk_name |-> Meta(cls).pk_name, sk_name |-> Meta(cls).sk_name]

\* DynamoQueryBuilder.__init__ once the index name has passed its check
NewQueryBuilder(cls, pk_val, index_name) ==
  WithDiscriminator(
    [kind |-> "query", model_cls |-> cls, pk_val |-> pk_val,
     index_name |-> index_name,
     sk_condition |-> <<>>, limit_val |-> None, scan_forward |-> TRUE,
     filter_conditions |-> <<>>, filter_values |-> EmptyMap,
     filter_names |-> EmptyMap, user_filter_condition |-> NoCondition,
     pk_name |-> ResolvedKeys(cls, index_name).pk_name,
     sk_name |-> ResolvedKeys(cls, index_name).sk_name,
     expression_values |-> [p \in {":pk"} |-> ToDynamoValue(pk_val)],
     expression_names |-> [p \in {"#pk"} |-> ResolvedKeys(cls, index_name).pk_name]])

\* DynamoScanBuilder.__init__ once the index name has passed its check
NewScanBuilder(cls, index_name) ==
  WithDiscriminator(
    [kind |-> "scan", model_cls |-> cls, pk_val |-> None,
     index_name |-> index_name,
     sk_condition |-> <<>>, limit_val |-> None, scan_forward |-> TRUE,
     filter_conditions |-> <<>>, filter_values |-> EmptyMap,
     filter_names |-> EmptyMap, user_filter_condition |-> NoCondition,
     pk_name |-> Meta(cls).pk_name, sk_name |-> Meta(cls).sk_name,
     expression_values |-> EmptyMap, expression_names |-> EmptyMap])

NoBuilder == [kind |-> "none"]

\* the sort-key predicate methods: each replaces sk_condition and writes its
\* own placeholders
SkCompare(b, o, val) ==
  [b EXCEPT !.sk_condition = <<CmpTok(o, "#sk", ":sk")>>,
            !.expression_names = Put(@, "#sk", b.sk_name[2]),
            !.expression_values = Put(@, ":sk", ToDynamoValue(val))]

SkStartsWith(b, prefix) ==
  [b EXCEPT !.sk_condition = <<BeginsTok("#sk", ":sk")>>,
            !.expression_names = Put(@, "#sk", b.sk_name[2]),
            !.expression_values = Put(@, ":sk", ToDynamoValue(prefix))]

SkBetween(b, low, high) ==
  [b EXCEPT !.sk_condition = <<BetweenTok("#sk", ":low", ":high")>>,
            !.expression_names = Put(@, "#sk", b.sk_name[2]),
            !.expression_values =
               Put(Put(@, ":low", ToDynamoValue(low)), ":high", ToDynamoValue(high))]

\* a filter() that keeps the last condition only
ReplaceFilter(b, c) == [b EXCEPT !.user_filter_condition = c]

\* filter(): the first call sets the user filter, later calls AND onto it
AddFilter(b, c) ==
  [b EXCEPT !.user_filter_condition =
     IF @ # NoCondition THEN CondAnd(@, c) ELSE c]

\* " AND ".join(filter_parts)
RECURSIVE JoinAnd(_)
JoinAnd(parts) ==
  IF Len(parts) = 1 THEN parts[1]
  ELSE parts[1] \o <<Tok("AND")>> \o JoinAnd(Tail(parts))

HasFilter(b) == b.filter_conditions # <<>> \/ b.user_filter_condition # NoCondition

\* the filter parts: the discriminator filter, then the compiled user filter
FilterParts(b) ==
  b.filter_conditions \o
  (IF b.user_filter_condition # NoCondition
   THEN <<CompileCondition(b.user_filter_condition).ConditionExpression>>
   ELSE <<>>)

UserNames(b) ==
  IF b.user_filter_condition # NoCondition
  THEN CompileCondition(b.user_filter_condition).ExpressionAttributeNames
  ELSE EmptyMap

UserValues(b) ==
  IF b.user_filter_condition # NoCondition
  THEN CompileCondition(b.user_filter_condition).ExpressionAttributeValues
  ELSE EmptyMap

\* `if self.limit_val:` -- the Limit argument is sent only for a truthy limit
LimitArg(b) ==
  IF Truthy(b.limit_val) THEN [k \in {"Limit"} |-> b.limit_val[2]] ELSE EmptyMap

\* `if self.index_name:` -- IndexName is sent only for a truthy index name
IndexArg(b) ==
  IF Truthy(b.index_name) THEN [k \in {"IndexName"} |-> b.index_name[2]] ELSE EmptyMap

FilterArg(b) ==
  IF HasFilter(b)
  THEN [k \in {"FilterExpression"} |-> JoinAnd(FilterParts(b))]
  ELSE EmptyMap

\* the request arguments DynamoQueryBuilder.__iter__ and page() build
QueryKwargs(b) ==
  Merge(Merge(
    [op |-> "query",
     TableName |-> Meta(b.model_cls).table_name,
     KeyConditionExpression |->
       <<CmpTok("=", "#pk", ":pk")>> \o
       (IF b.sk_condition # <<>> THEN <<Tok("AND")>> \o b.sk_condition ELSE <<>>),
     ExpressionAttributeValues |->
       Merge(Merge(b.expression_values, b.filter_values), UserValues(b)),
     ExpressionAttributeNames |->
       Merge(Merge(b.expression_names, b.filter_names), UserNames(b)),
     ScanIndexForward |-> b.scan_forward],
    Merge(LimitArg(b), IndexArg(b))), FilterArg(b))

\* the request arguments DynamoScanBuilder.__iter__ and page() build
ScanKwargs(b) ==
  Merge(Merge(
    [op |-> "scan", TableName |-> Meta(b.model_cls).table_name],
    Merge(IndexArg(b), LimitArg(b))),
    IF HasFilter(b)
    THEN Merge(FilterArg(b),
               [ExpressionAttributeNames |-> Merge(b.filter_names, UserNames(b)),
                ExpressionAttributeValues |-> Merge(b.filter_values, UserValues(b))])
    ELSE EmptyMap)

Kwargs(b) == IF b.kind = "query" THEN QueryKwargs(b) ELSE ScanKwargs(b)

\* ---------------------------------------------------------------- state
VARIABLES
  store,     \* the table: a set of wire items
  qb,        \* the query/scan builder under construction (NoBuilder: none)
  it,        \* the iterator over qb: the generator's position
  yielded,   \* the model instances the iterator has yielded so far
  requests,  \* the number of requests issued to the executor
  raised,    \* the exception the running operation ended with (NoError: none)
  class_client,    \* DynamoModel._client, the class-level default executor
  client_context,  \* DynamoModel._client_context: its value in each task
  blocks,          \* per task, the using_client blocks it is inside
  got,             \* per task, what its last _get_client() returned
  ub,              \* the update builder under construction (NoUpdate: none)
  call,            \* the write operation made last (NoCall: none yet)
  pg,              \* the caller's page loop: the pages taken so far
  request,         \* the arguments of the last get / write request issued
  defs,            \* the model classes declared so far: name -> class
  registries,      \* the entity_registry dicts, by the class that created them
  last             \* the last class declaration, register, _deserialize_item
                   \* or serializer call: its arguments and its result

iterVars == <<store, qb, it, yielded, requests, raised>>
clientVars == <<class_client, client_context, blocks, got>>
writeVars == <<ub, call, request>>
pageVars == <<pg>>
schemaVars == <<defs, registries, last>>
vars == <<store, qb, it, yielded, requests, raised,
          class_client, client_context, blocks, got, ub, call, pg,
          request, defs, registries, last>>

\* ------------------------------------------------------ the store (DynamoDB)
ItemKey(item) == [k \in {"pk", "sk"} |-> item[k]]

\* the order of two keys in a traversal: partition, then sort key
KeyBefore(a, b, forward) ==
  LET lt(u, v) == \/ Rank(u["pk"]) < Rank(v["pk"])
                  \/ Rank(u["pk"]) = Rank(v["pk"]) /\ Rank(u["sk"]) < Rank(v["sk"])
  IN IF forward THEN lt(a, b) ELSE lt(b, a)

RECURSIVE SortItems(_, _)
SortItems(S, forward) ==
  IF S = {} THEN <<>>
  ELSE LET m == CHOOSE i \in S :
                  \A j \in S : ~KeyBefore(ItemKey(j), ItemKey(i), forward)
       IN <<m>> \o SortItems(S \ {m}, forward)

\* the placeholders an expression refers to
ExprRefs(toks) ==
  UNION { { toks[i][f] : f \in DOMAIN toks[i] \ {"t", "op"} } : i \in 1..Len(toks) }

\* the store's validation of a request: every placeholder used is defined
\* and every placeholder defined is used; a Query's key condition may not
\* use <>, and begins_with needs a string key (the table's sort key is a
\* number)
RequestValid(req) ==
  LET key == Arg(req, "KeyConditionExpression", <<>>)
      refs == ExprRefs(key) \cup ExprRefs(Arg(req, "FilterExpression", <<>>))
  IN /\ refs = DOMAIN Arg(req, "ExpressionAttributeNames", EmptyMap)
                 \cup DOMAIN Arg(req, "ExpressionAttributeValues", EmptyMap)
     /\ \A i \in 1..Len(key) :
          /\ key[i].t # "begins_with"
          /\ key[i].t = "cmp" => key[i].op # "<>"

\* the direction of a traversal
Forward(req) == Arg(req, "ScanIndexForward", TRUE)

\* the items a request addresses: those meeting the key condition
Candidates(req) ==
  IF req.op = "query"
  THEN {i \in store :
          EvalExpression(req.KeyConditionExpression, i,
                         req.ExpressionAttributeNames,
                         req.ExpressionAttributeValues)}
  ELSE store

\* the items a request traverses, in order, after its ExclusiveStartKey
Remaining(req) ==
  SortItems({i \in Candidates(req) :
               "ExclusiveStartKey" \in DOMAIN req =>
                 KeyBefore(req.ExclusiveStartKey, ItemKey(i), Forward(req))},
            Forward(req))

Min(a, b) == IF a < b THEN a ELSE b

\* how many items one response may evaluate: at most Limit, at least one
\* when any remain (the store may cut a page short at its size limit)
PageSizesOf(r, req) ==
  IF Min(Arg(req, "Limit", r), r) = 0 THEN {0} ELSE 1..Min(Arg(req, "Limit", r), r)

PageSizes(req) == PageSizesOf(Len(Remaining(req)), req)

\* the filter of a request applied to one item
Passes(req, i) ==
  "FilterExpression" \in DOMAIN req =>
    EvalExpression(req.FilterExpression, i,
                   req.ExpressionAttributeNames, req.ExpressionAttributeValues)

RECURSIVE Filtered(_, _)
Filtered(items, req) ==
  IF items = <<>> THEN <<>>
  ELSE (IF Passes(req, Head(items)) THEN <<Head(items)>> ELSE <<>>)
         \o Filtered(Tail(items), req)

\* one response over the remaining items rem: the first n are evaluated,
\* those passing the filter are returned, and LastEvaluatedKey is set when
\* the traversal stopped before the end or at the Limit
ResponseOf(rem, req, n) ==
  Merge([Items |-> Filtered(SubSeq(rem, 1, n), req)],
        IF n < Len(rem) \/ (n >= 1 /\ Arg(req, "Limit", 0) = n)
        THEN [LastEvaluatedKey |-> ItemKey(rem[n])]
        ELSE EmptyMap)

Response(req, n) == ResponseOf(Remaining(req), req, n)

\* faults of the executor that do not depend on the request
Faults == {ClientError("ProvisionedThroughputExceededException"),
           EndpointConnectionError}

\* --------------------------------------------------- builder operations
Idle == [pc |-> "idle", kwargs |-> EmptyMap, buffer |-> <<>>, token |-> EmptyMap,
         count |-> 0]

Building == qb.kind # "none" /\ it.pc = "idle"

SortKeyValues == {PyInt(1)}

FilterPool ==
  {CondOr(Eq("rating", PyInt(1)), Eq("rating", PyInt(2))),
   CondNot(Eq("rating", PyInt(1)))}

\* ValueError(f"GSI '{index_name}' is not defined on model ...")
GsiNotDefined(index_name) ==
  [type |-> "ValueError", message |-> "GSI is not defined on model",
   index_name |-> index_name]

\* ValueError("Index does not have a Sort Key defined."), raised in method
NoSortKeyDefined(method) ==
  [type |-> "ValueError", message |-> "Index does not have a Sort Key defined.",
   method |-> method]

\* Model.query(pk_val) with no index name, DynamoQueryBuilder(cls, pk_val,
\* index_name) with one: `if index_name:` looks the index up and raises
\* when it is not defined
Query(cls, pk_val, index_name) ==
  /\ qb.kind = "none"
  /\ IF Truthy(index_name) /\ ~HasGsi(Meta(cls), index_name)
     THEN /\ raised' = GsiNotDefined(index_name)
          /\ UNCHANGED qb
     ELSE /\ qb' = NewQueryBuilder(cls, pk_val, index_name)
          /\ raised' = NoError
  /\ UNCHANGED <<store, it, yielded, requests>>
  /\ UNCHANGED <<clientVars, writeVars, pageVars, schemaVars>>

\* Model.scan(index_name)
Scan(cls, index_name) ==
  /\ qb.kind = "none"
  /\ IF Truthy(index_name) /\ ~HasGsi(Meta(cls), index_name)
     THEN /\ raised' = GsiNotDefined(index_name)
          /\ UNCHANGED qb
     ELSE /\ qb' = NewScanBuilder(cls, index_name)
          /\ raised' = NoError
  /\ UNCHANGED <<store, it, yielded, requests>>
  /\ UNCHANGED <<clientVars, writeVars, pageVars, schemaVars>>

\* a builder every sort-key method accepts
AnySortKey(b) == TRUE

\* `if not self.sk_name:` of the sort-key methods, negated
HasSortKey(b) == Truthy(b.sk_name)

\* the name of the method of a comparison
MethodOf(o) ==
  CASE o = "=" -> "eq" [] o = "<>" -> "ne" [] o = "<" -> "lt"
    [] o = "<=" -> "le" [] o = ">" -> "gt" [] OTHER -> "ge"

\* gt / lt / ge / le / eq / ne: `if not self.sk_name: raise ValueError`
SortKeyCompare(o, val) ==
  /\ Building /\ qb.kind = "query"
  /\ IF ~HasSortKey(qb)
     THEN /\ raised' = NoSortKeyDefined(MethodOf(o))
          /\ UNCHANGED qb
     ELSE /\ qb' = SkCompare(qb, o, val)
          /\ raised' = NoError
  /\ UNCHANGED <<store, it, yielded, requests>>
  /\ UNCHANGED <<clientVars, writeVars, pageVars, schemaVars>>

StartsWith(prefix) ==
  /\ Building /\ qb.kind = "query"
  /\ IF ~HasSortKey(qb)
     THEN /\ raised' = NoSortKeyDefined("starts_with")
          /\ UNCHANGED qb
     ELSE /\ qb' = SkStartsWith(qb, prefix)
          /\ raised' = NoError
  /\ UNCHANGED <<store, it, yielded, requests>>
  /\ UNCHANGED <<clientVars, writeVars, pageVars, schemaVars>>

Between(low, high) ==
  /\ Building /\ qb.kind = "query"
  /\ IF ~HasSortKey(qb)
     THEN /\ raised' = NoSortKeyDefined("between")
          /\ UNCHANGED qb
     ELSE /\ qb' = SkBetween(qb, low, high)
          /\ raised' = NoError
  /\ UNCHANGED <<store, it, yielded, requests>>
  /\ UNCHANGED <<clientVars, writeVars, pageVars, schemaVars>>

\* a using_index that builds the query anew for the index
QueryOnIndex(b, index_name) == NewQueryBuilder(b.model_cls, b.pk_val, index_name)

\* DynamoQueryBuilder.using_index: the index's keys replace the resolved
\* ones; "#sk" is renamed only when the index has a sort key
QueryUsingIndex(b, index_name) ==
  [b EXCEPT !.index_name = index_name,
            !.pk_name = GetGsi(Meta(b.model_cls), index_name).pk_name,
            !.sk_name = GetGsi(Meta(b.model_cls), index_name).sk_name,
            !.expression_names =
               IF Truthy(GetGsi(Meta(b.model_cls), index_name).sk_name) /\ "#sk" \in DOMAIN @
               THEN Put(Put(@, "#pk", GetGsi(Meta(b.model_cls), index_name).pk_name),
                        "#sk", GetGsi(Meta(b.model_cls), index_name).sk_name[2])
               ELSE Put(@, "#pk", GetGsi(Meta(b.model_cls), index_name).pk_name)]

\* DynamoScanBuilder.using_index
ScanUsingIndex(b, index_name) == [b EXCEPT !.index_name = index_name]

\* builder.using_index(index_name)
UsingIndex(index_name) ==
  /\ Building
  /\ IF ~HasGsi(Meta(qb.model_cls), index_name)
     THEN /\ raised' = GsiNotDefined(index_name)
          /\ UNCHANGED qb
     ELSE /\ qb' = IF qb.kind = "query" THEN QueryUsingIndex(qb, index_name)
                   ELSE ScanUsingIndex(qb, index_name)
          /\ raised' = NoError
  /\ UNCHANGED <<store, it, yielded, requests>>
  /\ UNCHANGED <<clientVars, writeVars, pageVars, schemaVars>>

Limit(n) ==
  /\ Building
  /\ qb' = [qb EXCEPT !.limit_val = PyInt(n)]
  /\ UNCHANGED <<store, it, yielded, requests, raised>>
  /\ UNCHANGED <<clientVars, writeVars, pageVars, schemaVars>>

Reverse ==
  /\ Building /\ qb.kind = "query"
  /\ qb' = [qb EXCEPT !.scan_forward = FALSE]
  /\ UNCHANGED <<store, it, yielded, requests, raised>>
  /\ UNCHANGED <<clientVars, writeVars, pageVars, schemaVars>>

Filter(c) ==
  /\ Building
  /\ qb.user_filter_condition \in FilterPool \cup {NoCondition}
  /\ qb' = AddFilter(qb, c)
  /\ UNCHANGED <<store, it, yielded, requests, raised>>
  /\ UNCHANGED <<clientVars, writeVars, pageVars, schemaVars>>

\* ------------------------------------------------------------- iteration
\* iter(builder): the generator object is created, none of its body runs
Iter ==
  /\ Building
  /\ it' = [it EXCEPT !.pc = "created"]
  /\ UNCHANGED <<store, qb, yielded, requests, raised>>
  /\ UNCHANGED <<clientVars, writeVars, pageVars, schemaVars>>

\* the first next(): the body builds the request arguments and runs up to
\* the paginator's first request
Start ==
  /\ it.pc = "created"
  /\ it' = [it EXCEPT !.pc = "fetching", !.kwargs = Kwargs(qb)]
  /\ UNCHANGED <<store, qb, yielded, requests, raised>>
  /\ UNCHANGED <<clientVars, writeVars, pageVars, schemaVars>>

\* `if self.limit_val and count >= self.limit_val: return`
LimitReached(b, count) ==
  Truthy(b.limit_val) /\ count >= b.limit_val[2]

\* a later next(): the generator resumes after its yield
Resume ==
  /\ it.pc = "suspended"
  /\ LET count == it.count + 1
     IN IF LimitReached(qb, count)
        THEN /\ it' = [it EXCEPT !.pc = "done", !.count = count]
             /\ UNCHANGED yielded
        ELSE IF it.buffer # <<>>
        THEN /\ it' = [it EXCEPT !.count = count, !.buffer = Tail(@)]
             /\ yielded' = Append(yielded,
                  DeserializeItem(qb.model_cls, FromDynamo(Head(it.buffer))))
        ELSE /\ it' = [it EXCEPT !.count = count,
                          !.pc = IF it.token # EmptyMap THEN "fetching" ELSE "done"]
             /\ UNCHANGED yielded
  /\ UNCHANGED <<store, qb, requests, raised>>
  /\ UNCHANGED <<clientVars, writeVars, pageVars, schemaVars>>

\* the paginator's request: the arguments built at the start plus the
\* previous response's LastEvaluatedKey as ExclusiveStartKey
PageRequest == Merge(it.kwargs, it.token)

\* the executor raises: handle_dynamo_errors decides what the caller sees
FetchFails(e) ==
  /\ it.pc = "fetching"
  /\ e \in Faults \/ (~RequestValid(PageRequest) /\ e = ClientError("ValidationException"))
  /\ requests' = requests + 1
  /\ raised' = HandleDynamoErrors(PyStr(Meta(qb.model_cls).table_name), e)
  /\ it' = [it EXCEPT !.pc = "raised"]
  /\ UNCHANGED <<store, qb, yielded>>
  /\ UNCHANGED <<clientVars, writeVars, pageVars, schemaVars>>

\* the iterator takes a response: its first item is yielded, or the next
\* page is asked for, or the iteration ends
Deliver(resp, token) ==
  IF resp.Items # <<>>
  THEN /\ yielded' = Append(yielded,
            DeserializeItem(qb.model_cls, FromDynamo(Head(resp.Items))))
       /\ it' = [it EXCEPT !.pc = "suspended", !.buffer = Tail(resp.Items),
                           !.token = token]
  ELSE /\ it' = [it EXCEPT !.token = token,
                    !.pc = IF token # EmptyMap THEN "fetching" ELSE "done"]
       /\ UNCHANGED yielded

\* the paginator's next ExclusiveStartKey
NextToken(resp) ==
  IF "LastEvaluatedKey" \in DOMAIN resp
  THEN [ExclusiveStartKey |-> resp.LastEvaluatedKey]
  ELSE EmptyMap

\* the executor answers with one page of n evaluated items
FetchPage(n) ==
  /\ it.pc = "fetching"
  /\ \E req \in {PageRequest} :
       /\ RequestValid(req)
       /\ n \in PageSizes(req)
       /\ \E resp \in {Response(req, n)} : Deliver(resp, NextToken(resp))
  /\ requests' = requests + 1
  /\ UNCHANGED <<store, qb, raised>>
  /\ UNCHANGED <<clientVars, writeVars, pageVars, schemaVars>>

\* ----------------------------------------------------------------- page()
\* None passed as start_key, or returned as last_evaluated_key
NoCursor == [none |-> TRUE]

NoResult == [none |-> TRUE]

NoPages ==
  [calls |-> 0, kwargs |-> EmptyMap, response |-> EmptyMap, result |-> NoResult,
   pages |-> <<>>]

InitPageVars == pg = NoPages

\* no class declared, no registry, nothing called
NoSchemaCall == [op |-> "none"]
InitSchemaVars == defs = EmptyMap /\ registries = EmptyMap /\ last = NoSchemaCall

\* `if start_key: kwargs["ExclusiveStartKey"] = serializer.to_dynamo(start_key)`
StartKeyArg(start_key) ==
  IF start_key # NoCursor /\ DOMAIN start_key # {}
  THEN [ExclusiveStartKey |-> ToDynamo(start_key)]
  ELSE EmptyMap

\* the request arguments of page(start_key)
PageKwargs(b, start_key) == Merge(Kwargs(b), StartKeyArg(start_key))

\* a page that never hands out a cursor
NoCursorOf(response) == NoCursor

\* `cursor = serializer.from_dynamo(raw_key) if raw_key else None`
CursorOf(response) ==
  IF "LastEvaluatedKey" \in DOMAIN response /\ DOMAIN response.LastEvaluatedKey # {}
  THEN FromDynamo(response.LastEvaluatedKey)
  ELSE NoCursor

\* PageResult(items, last_evaluated_key, count = len(items))
PageResult(items, cursor) ==
  [items |-> items, last_evaluated_key |-> cursor, count |-> Len(items)]

\* PageResult.has_more
HasMore(r) == r.last_evaluated_key # NoCursor

\* the items of a response as model instances
DeserializeAll(cls, items) ==
  [i \in 1..Len(items) |-> DeserializeItem(cls, FromDynamo(items[i]))]

\* builder.page(start_key): one request, its response made a PageResult
Page(start_key, n) ==
  /\ Building
  /\ pg.calls < MaxPages
  /\ \E kw \in {Kwargs(qb)} :
       \E req \in {Merge(kw, StartKeyArg(start_key))} :
         /\ RequestValid(req)
         /\ n \in PageSizes(req)
         /\ \E resp \in {Response(req, n)} :
              pg' = [calls |-> pg.calls + 1, kwargs |-> req, response |-> resp,
                     result |-> PageResult(DeserializeAll(qb.model_cls, resp.Items),
                                           CursorOf(resp)),
                     pages |-> Append(pg.pages, resp.Items)]
  /\ requests' = requests + 1
  /\ UNCHANGED <<store, qb, it, yielded, raised>>
  /\ UNCHANGED <<clientVars, writeVars, schemaVars>>

\* builder.page(start_key) when the executor raises
PageFails(start_key, e) ==
  /\ Building
  /\ pg.calls < MaxPages
  /\ \/ e \in Faults
     \/ ~RequestValid(PageKwargs(qb, start_key)) /\ e = ClientError("ValidationException")
  /\ requests' = requests + 1
  /\ raised' = HandleDynamoErrors(PyStr(Meta(qb.model_cls).table_name), e)
  /\ pg' = [pg EXCEPT !.calls = @ + 1, !.response = EmptyMap, !.result = NoResult]
  /\ UNCHANGED <<store, qb, it, yielded>>
  /\ UNCHANGED <<clientVars, writeVars, schemaVars>>

\* -------------------------------------------------- write operations
NoUpdate == [kind |-> "none"]
NoCall == [op |-> "none"]

InitWriteVars == ub = NoUpdate /\ call = NoCall /\ request = EmptyMap

\* model_fields of the model written to: attribute name -> annotation
FieldTypes ==
  [pk |-> "int", sk |-> "int", type |-> "str", rating |-> "int",
   active |-> "bool", tags |-> "set", version |-> "int"]

\* the outcome of a validation that raised
Invalid == <<"invalid", 0, 0>>

\* TypeAdapter(annotation).validate_python(value), pydantic's lax mode:
\* bool -> int and 0/1 -> bool are coerced; nothing is coerced to str or set
ValidatePython(annotation, v) ==
  CASE annotation = "int" /\ v[1] = "int" -> v
    [] annotation = "int" /\ v[1] = "bool" -> <<"int", v[2], 0>>
    [] annotation = "str" /\ v[1] = "str" -> v
    [] annotation = "bool" /\ v[1] = "bool" -> v
    [] annotation = "bool" /\ v[1] = "int" /\ v[2] \in {0, 1} -> <<"bool", v[2], 0>>
    [] annotation = "set" /\ v[1] = "set" -> v
    [] OTHER -> Invalid

\* isinstance(value, (int, float, Decimal)): bool is a subclass of int
IsNumberInstance(v) == v[1] \in {"int", "float", "decimal", "bool"}
IsSetInstance(v) == v[1] = "set"

\* update actions
SetOf(f, v) == [kind |-> "set", field_name |-> f, value |-> v]
RemoveOf(f) == [kind |-> "remove", field_name |-> f, value |-> None]
AddOf(f, v) == [kind |-> "add", field_name |-> f, value |-> v]
DeleteOf(f, v) == [kind |-> "delete", field_name |-> f, value |-> v]

\* UpdateAction._get_field_info: the field's annotation, "" for no field
GetFieldInfo(field_name) ==
  IF field_name \in DOMAIN FieldTypes THEN FieldTypes[field_name] ELSE ""

\* Add.validate given the validated value
AddStrictCheck(v) ==
  IF v = Invalid \/ ~(IsNumberInstance(v) \/ IsSetInstance(v)) THEN Invalid ELSE v

\* action.validate(model_cls): the validated value, Invalid for ValueError
Validate(a) ==
  CASE a.kind = "remove" -> None
    [] a.kind = "set" /\ a.value = None -> None
    [] a.kind = "add" /\ GetFieldInfo(a.field_name) # "" ->
         AddStrictCheck(ValidatePython(GetFieldInfo(a.field_name), a.value))
    [] a.kind = "add" -> AddStrictCheck(a.value)
    [] GetFieldInfo(a.field_name) # "" ->
         ValidatePython(GetFieldInfo(a.field_name), a.value)
    [] OTHER -> a.value

\* the action as _compile groups it: the validated value, Set(None) -> Remove
Grouped(a) ==
  IF a.kind = "set" /\ Validate(a) = None THEN RemoveOf(a.field_name)
  ELSE [a EXCEPT !.value = Validate(a)]

RECURSIVE OfKind(_, _)
OfKind(actions, k) ==
  IF actions = <<>> THEN <<>>
  ELSE (IF Grouped(Head(actions)).kind = k THEN <<Grouped(Head(actions))>> ELSE <<>>)
         \o OfKind(Tail(actions), k)

\* the grouped actions left in the order of the chain
Chained(actions) == [i \in 1..Len(actions) |-> Grouped(actions[i])]

\* the clauses in the order they are written: SET, REMOVE, ADD, DELETE
Ordered(actions) ==
  OfKind(actions, "set") \o OfKind(actions, "remove")
    \o OfKind(actions, "add") \o OfKind(actions, "delete")

\* a name placeholder without the update prefix
UnprefixedPlaceholder(k) == NamePlaceholder(k)

\* get_name_ph / get_value_ph: '#u_n{k}' and ':u_v{k}'
UpdateNamePlaceholder(k) == <<"#u_n0", "#u_n1", "#u_n2", "#u_n3">>[k + 1]
UpdateValuePlaceholder(k) == <<":u_v0", ":u_v1", ":u_v2", ":u_v3">>[k + 1]

\* the number of value placeholders handed out before clause i
ValuesBefore(ord, i) == Cardinality({j \in 1..(i - 1) : ord[j].kind # "remove"})

\* UpdateExpression as its clauses
UpdateClause(ord, i) ==
  IF ord[i].kind = "remove"
  THEN [t |-> "remove", name |-> UpdateNamePlaceholder(i - 1)]
  ELSE [t |-> ord[i].kind, name |-> UpdateNamePlaceholder(i - 1),
        val |-> UpdateValuePlaceholder(ValuesBefore(ord, i))]

UpdateExpression(ord) == [i \in 1..Len(ord) |-> UpdateClause(ord, i)]

UpdateNames(ord) ==
  [x \in {UpdateNamePlaceholder(i - 1) : i \in 1..Len(ord)} |->
     ord[CHOOSE i \in 1..Len(ord) : UpdateNamePlaceholder(i - 1) = x].field_name]

UpdateValues(ord) ==
  [x \in {UpdateValuePlaceholder(ValuesBefore(ord, i)) :
            i \in {j \in 1..Len(ord) : ord[j].kind # "remove"}} |->
     ToDynamoValue(ord[CHOOSE i \in 1..Len(ord) :
                         /\ ord[i].kind # "remove"
                         /\ UpdateValuePlaceholder(ValuesBefore(ord, i)) = x].value)]

\* a write that sends no condition
NoConditionParams(c) == EmptyMap

\* the with-condition part of a request: compile_condition's output
ConditionParams(c) == IF c = NoCondition THEN EmptyMap ELSE CompileCondition(c)

\* drop the keys whose maps are empty (`if names:` / `if values:`)
NonEmpty(m) == [k \in {x \in DOMAIN m : m[x] # EmptyMap} |-> m[k]]

\* UpdateBuilder._compile on validated actions
CompileOf(ord, cond) ==
  Merge([UpdateExpression |-> UpdateExpression(ord)],
    Merge(IF cond = EmptyMap THEN EmptyMap
          ELSE [ConditionExpression |-> cond.ConditionExpression],
      NonEmpty([ExpressionAttributeNames |->
                  Merge(UpdateNames(ord), Arg(cond, "ExpressionAttributeNames", EmptyMap)),
                ExpressionAttributeValues |->
                  Merge(UpdateValues(ord), Arg(cond, "ExpressionAttributeValues", EmptyMap))])))

\* UpdateBuilder._compile: ValueError when there is no action or an action
\* fails its validation
CompileFails(b) ==
  \/ b.actions = <<>>
  \/ \E i \in 1..Len(b.actions) : Validate(b.actions[i]) = Invalid

Compile(b) == CompileOf(Ordered(b.actions), ConditionParams(b.condition))

\* ---- the store's PutItem / DeleteItem / UpdateItem
KeySchema == {"pk", "sk"}

Restrict(m, D) == [x \in D |-> m[x]]

\* the stored item with this key, the empty item when there is none
StoredItem(key) ==
  IF \E i \in store : ItemKey(i) = key
  THEN CHOOSE i \in store : ItemKey(i) = key
  ELSE EmptyMap

\* the item as the condition expression of a request sees it
ConditionMet(req, item) ==
  "ConditionExpression" \in DOMAIN req =>
    EvalExpression(req.ConditionExpression, item,
                   Arg(req, "ExpressionAttributeNames", EmptyMap),
                   Arg(req, "ExpressionAttributeValues", EmptyMap))

\* static validation of a write request: the key matches the schema, the
\* placeholders used and defined agree, and for UpdateItem no attribute is
\* written twice, no key attribute is written, ADD takes a number or a set
\* and DELETE a set
WriteValid(req) ==
  /\ DOMAIN req.Key = KeySchema
  /\ ExprRefs(Arg(req, "UpdateExpression", <<>>))
       \cup ExprRefs(Arg(req, "ConditionExpression", <<>>))
       = DOMAIN Arg(req, "ExpressionAttributeNames", EmptyMap)
           \cup DOMAIN Arg(req, "ExpressionAttributeValues", EmptyMap)
  /\ \A i \in 1..Len(Arg(req, "UpdateExpression", <<>>)) :
       /\ req.ExpressionAttributeNames[req.UpdateExpression[i].name] \notin KeySchema
       /\ \A j \in 1..(i - 1) :
            req.ExpressionAttributeNames[req.UpdateExpression[j].name]
              # req.ExpressionAttributeNames[req.UpdateExpression[i].name]
       /\ req.UpdateExpression[i].t = "add" =>
            req.ExpressionAttributeValues[req.UpdateExpression[i].val][1] \in {"N", "SS"}
       /\ req.UpdateExpression[i].t = "delete" =>
            req.ExpressionAttributeValues[req.UpdateExpression[i].val][1] = "SS"

\* one clause applied to an item: [ok, item]; ok is FALSE when the stored
\* attribute has a type the clause cannot work on
ApplyClause(item, t, attr, v) ==
  CASE t = "set" -> [ok |-> TRUE, item |-> Put(item, attr, v)]
    [] t = "remove" -> [ok |-> TRUE, item |-> Restrict(item, DOMAIN item \ {attr})]
    [] attr \notin DOMAIN item ->
         [ok |-> TRUE, item |-> IF t = "add" THEN Put(item, attr, v) ELSE item]
    [] item[attr][1] # v[1] -> [ok |-> FALSE, item |-> item]
    [] t = "add" /\ v[1] = "N" ->
         [ok |-> TRUE, item |-> Put(item, attr, <<"N", item[attr][2] + v[2], 0>>)]
    [] t = "add" -> [ok |-> TRUE, item |-> item]
    [] OTHER ->
         [ok |-> TRUE,
          item |-> IF item[attr] = v THEN Restrict(item, DOMAIN item \ {attr}) ELSE item]

RECURSIVE ApplyClauses(_, _, _, _)
ApplyClauses(acc, clauses, names, values) ==
  IF clauses = <<>> \/ ~acc.ok THEN acc
  ELSE ApplyClauses(
         ApplyClause(acc.item, Head(clauses).t, names[Head(clauses).name],
                     IF "val" \in DOMAIN Head(clauses)
                     THEN values[Head(clauses).val] ELSE <<"NULL", 0, 0>>),
         Tail(clauses), names, values)

\* the outcome of a write on the stored item `old`, `new` being what the
\* write would leave: the error code ("" for success) and the new table
WriteOutcome(req, old, new) ==
  CASE ~WriteValid(req) -> [error |-> "ValidationException", store |-> store]
    [] ~ConditionMet(req, old) ->
         [error |-> "ConditionalCheckFailedException", store |-> store]
    [] ~new.ok -> [error |-> "ValidationException", store |-> store]
    [] OTHER ->
         [error |-> "",
          store |-> (store \ {old}) \cup (IF new.item = EmptyMap THEN {} ELSE {new.item})]

PutItem(req) ==
  WriteOutcome(Put(req, "Key", Restrict(req.Item, KeySchema \cap DOMAIN req.Item)),
               StoredItem(ItemKey(req.Item)), [ok |-> TRUE, item |-> req.Item])

DeleteItem(req) ==
  WriteOutcome(req, StoredItem(req.Key), [ok |-> TRUE, item |-> EmptyMap])

\* UpdateItem creates the item from its key when none is stored
UpdateItemOn(req, old) ==
  WriteOutcome(req, old,
    ApplyClauses([ok |-> TRUE, item |-> IF old = EmptyMap THEN req.Key ELSE old],
                 req.UpdateExpression,
                 req.ExpressionAttributeNames,
                 Arg(req, "ExpressionAttributeValues", EmptyMap)))

UpdateItem(req) == UpdateItemOn(req, StoredItem(req.Key))

\* ---- the write operations of the model class
\* key_dict of get / delete / update: the sort key only `if sk and sk_name`
KeyDict(cls, pk, sk) ==
  Merge([x \in {Meta(cls).pk_name} |-> pk],
        IF Truthy(sk) /\ Truthy(Meta(cls).sk_name)
        THEN [x \in {Meta(cls).sk_name[2]} |-> sk] ELSE EmptyMap)

\* model_dump(mode="python", exclude_none=True)
ModelDump(inst) == Restrict(inst, {f \in DOMAIN inst : inst[f] # None})

\* what the caller sees of a request's outcome
Outcome(out) ==
  IF out.error = "" THEN NoError
  ELSE HandleDynamoErrors(PyStr(Meta("Base").table_name), ClientError(out.error))

ValueError == [type |-> "ValueError"]

\* the operation's record: `sent` tells whether a request was issued
CallOf(name, cond, actions, sent) ==
  [op |-> name, condition |-> cond, actions |-> actions, sent |-> sent]

\* the record of an operation on one key: the pk and sk the caller gave
Keyed(c, pk, sk) == Merge(c, [pk |-> pk, sk |-> sk])

\* the store's GetItem: the stored item under the key, if any
GetItem(req) ==
  IF DOMAIN req.Key # KeySchema THEN [error |-> "ValidationException", item |-> EmptyMap]
  ELSE [error |-> "", item |-> StoredItem(req.Key)]

\* Model.get's `return None`
NotFound == [cls |-> "None", data |-> EmptyMap]

\* Model.get(pk, sk)
Get(pk, sk) ==
  /\ ub = NoUpdate
  /\ requests < MaxRequests
  /\ \E req \in {[TableName |-> Meta("A").table_name,
                   Key |-> ToDynamo(KeyDict("A", pk, sk))]} :
       /\ request' = req
       /\ \E out \in {GetItem(req)} :
            /\ raised' = Outcome(out)
            /\ call' = Keyed([op |-> "get", sent |-> TRUE,
                              result |-> IF out.item = EmptyMap THEN NotFound
                                         ELSE DeserializeItem("A", FromDynamo(out.item))],
                             pk, sk)
  /\ requests' = requests + 1
  /\ UNCHANGED <<store, qb, it, yielded, ub>>
  /\ UNCHANGED <<clientVars, pageVars, schemaVars>>

\* instance.save(condition)
Save(inst, cond) ==
  /\ ub = NoUpdate
  /\ requests < MaxRequests
  /\ \E req \in {Merge([TableName |-> Meta("A").table_name,
                         Item |-> ToDynamo(ModelDump(inst))],
                        ConditionParams(cond))} :
       /\ request' = req
       /\ \E out \in {PutItem(req)} :
            /\ store' = out.store
            /\ raised' = Outcome(out)
  /\ requests' = requests + 1
  /\ call' = CallOf("save", cond, <<>>, TRUE)
  /\ UNCHANGED <<qb, it, yielded, ub>>
  /\ UNCHANGED <<clientVars, pageVars, schemaVars>>

\* Model.delete(pk, sk, condition)
Delete(pk, sk, cond) ==
  /\ ub = NoUpdate
  /\ requests < MaxRequests
  /\ \E req \in {Merge([TableName |-> Meta("A").table_name,
                         Key |-> ToDynamo(KeyDict("A", pk, sk))],
                        ConditionParams(cond))} :
       /\ request' = req
       /\ \E out \in {DeleteItem(req)} :
            /\ store' = out.store
            /\ raised' = Outcome(out)
  /\ requests' = requests + 1
  /\ call' = Keyed(CallOf("delete", cond, <<>>, TRUE), pk, sk)
  /\ UNCHANGED <<qb, it, yielded, ub>>
  /\ UNCHANGED <<clientVars, pageVars, schemaVars>>

\* Model.update(pk, sk): a new builder
Update(pk, sk) ==
  /\ ub = NoUpdate
  /\ ub' = [kind |-> "update", pk |-> pk, sk |-> sk, actions |-> <<>>,
            condition |-> NoCondition]
  /\ call' = NoCall
  /\ raised' = NoError
  /\ UNCHANGED <<store, qb, it, yielded, requests, request>>
  /\ UNCHANGED <<clientVars, pageVars, schemaVars>>

\* builder.set / remove / add / delete
AppendAction(a) ==
  /\ ub.kind = "update"
  /\ Len(ub.actions) < MaxActions
  /\ ub' = [ub EXCEPT !.actions = Append(@, a)]
  /\ UNCHANGED <<store, qb, it, yielded, requests, raised, call, request>>
  /\ UNCHANGED <<clientVars, pageVars, schemaVars>>

\* builder.condition(condition)
Condition(c) ==
  /\ ub.kind = "update"
  /\ ub' = [ub EXCEPT !.condition = c]
  /\ UNCHANGED <<store, qb, it, yielded, requests, raised, call, request>>
  /\ UNCHANGED <<clientVars, pageVars, schemaVars>>

\* builder.execute() when _compile raises: no request is made
ExecuteRaises ==
  /\ ub.kind = "update"
  /\ CompileFails(ub)
  /\ raised' = ValueError
  /\ call' = Keyed(CallOf("update", ub.condition, ub.actions, FALSE), ub.pk, ub.sk)
  /\ ub' = NoUpdate
  /\ UNCHANGED <<store, qb, it, yielded, requests, request>>
  /\ UNCHANGED <<clientVars, pageVars, schemaVars>>

\* builder.execute(): the key, _compile, then update_item
Execute ==
  /\ ub.kind = "update"
  /\ ~CompileFails(ub)
  /\ requests < MaxRequests
  /\ \E req \in {Merge([TableName |-> Meta("A").table_name,
                         Key |-> ToDynamo(KeyDict("A", ub.pk, ub.sk)),
                         ReturnValues |-> "NONE"],
                        Compile(ub))} :
       /\ request' = req
       /\ \E out \in {UpdateItem(req)} :
            /\ store' = out.store
            /\ raised' = Outcome(out)
  /\ requests' = requests + 1
  /\ call' = Keyed(CallOf("update", ub.condition, ub.actions, TRUE), ub.pk, ub.sk)
  /\ ub' = NoUpdate
  /\ UNCHANGED <<qb, it, yielded>>
  /\ UNCHANGED <<clientVars, pageVars, schemaVars>>

\* ------------------------------------------------- the executor in use
\* Two concurrently running tasks (threads, or tasks started from separate
\* contexts); each passes its own client objects to using_client, and
\* set_client is given another client.
Tasks == {"t1", "t2"}

NoClient == <<"none", 0>>
Boto3Client == <<"boto3", 0>>
OwnClients == [t \in Tasks |-> {<<t, 1>>, <<t, 2>>}]
DefaultClients == {<<"default", 1>>}

\* the context a task reads and writes _client_context in: its own
SharedContext(t) == "t1"
ContextOf(t) == t

\* _client_context.get(): None unless the task's context holds a value
ContextGet(t) == client_context[ContextOf(t)]

\* the executor _get_client() returns in task t
ActiveClient(t) ==
  IF ContextGet(t) # NoClient THEN ContextGet(t)
  ELSE IF class_client # NoClient THEN class_client
  ELSE Boto3Client

\* _get_client(): the context override, else the class-level default, else
\* a new boto3 client that becomes the class-level default
GetClient(t) ==
  /\ got' = [got EXCEPT ![t] = ActiveClient(t)]
  /\ class_client' = IF ContextGet(t) = NoClient /\ class_client = NoClient
                     THEN Boto3Client ELSE class_client
  /\ UNCHANGED <<client_context, blocks>>
  /\ UNCHANGED <<iterVars, writeVars, pageVars, schemaVars>>

\* set_client(client)
SetClient(c) ==
  /\ class_client' = c
  /\ UNCHANGED <<client_context, blocks, got>>
  /\ UNCHANGED <<iterVars, writeVars, pageVars, schemaVars>>

\* using_client(client), entry: token = _client_context.set(client). The
\* block keeps the token; `active` and `default` record, for the
\* properties, the executor and the class-level default at entry
UsingClientEnter(t, c) ==
  /\ Len(blocks[t]) < MaxDepth
  /\ blocks' = [blocks EXCEPT ![t] =
                  Append(@, [client |-> c, old_value |-> ContextGet(t),
                             active |-> ActiveClient(t), default |-> class_client])]
  /\ client_context' = [client_context EXCEPT ![ContextOf(t)] = c]
  /\ UNCHANGED <<class_client, got>>
  /\ UNCHANGED <<iterVars, writeVars, pageVars, schemaVars>>

\* what reset(token) puts back
ClearedValue(block) == NoClient
RestoredValue(block) == block.old_value

\* using_client(client), exit: the finally clause runs
\* _client_context.reset(token) whether the block returned or raised
UsingClientExit(t, how) ==
  /\ blocks[t] # <<>>
  /\ how \in {"return", "raise"}
  /\ client_context' = [client_context EXCEPT ![ContextOf(t)] =
                          RestoredValue(blocks[t][Len(blocks[t])])]
  /\ blocks' = [blocks EXCEPT ![t] = SubSeq(@, 1, Len(@) - 1)]
  /\ UNCHANGED <<class_client, got>>
  /\ UNCHANGED <<iterVars, writeVars, pageVars, schemaVars>>

\* no client configured, no task inside a block
InitClientVars ==
  /\ class_client = NoClient
  /\ client_context = [t \in Tasks |-> NoClient]
  /\ blocks = [t \in Tasks |-> <<>>]
  /\ got = [t \in Tasks |-> NoClient]

\* ------------------------------------------------------- specification
N(w) == <<"N", w, 0>>
S(str) == <<"S", str, 0>>

\* a table holding n items of partition 1 (sort keys 1..n, each an A or a B
\* item) and one B item of partition 2
TableOf(disc) ==
  { [pk |-> N(1), sk |-> N(i), type |-> S(disc[i]), rating |-> N(1 + (i % 2))] :
      i \in DOMAIN disc }
  \cup { [pk |-> N(2), sk |-> N(1), type |-> S("B"), rating |-> N(1)] }

Tables ==
  UNION { { TableOf(disc) : disc \in [1..n -> {"A", "B"}] } : n \in 0..MaxItems }

InitIter ==
  /\ store \in Tables
  /\ qb = NoBuilder
  /\ it = Idle
  /\ yielded = <<>>
  /\ requests = 0
  /\ raised = NoError
  /\ InitClientVars
  /\ InitWriteVars
  /\ InitPageVars
  /\ InitSchemaVars

NextIter ==
  \/ \E cls \in {"Base", "A"} : Query(cls, PyInt(1), None) \/ Scan(cls, None)
  \/ \E o \in {"=", "<>", "<", "<=", ">", ">="}, v \in SortKeyValues : SortKeyCompare(o, v)
  \/ StartsWith(PyInt(1))
  \/ Between(PyInt(1), PyInt(2))
  \/ \E n \in 0..MaxLimit : Limit(n)
  \/ Reverse
  \/ \E c \in FilterPool : Filter(c)
  \/ Iter
  \/ Start
  \/ Resume
  \/ \E e \in Faults \cup {ClientError("ValidationException")} : FetchFails(e)
  \/ \E n \in 0..(MaxItems + 1) : FetchPage(n)

SpecIter == InitIter /\ [][NextIter]_vars

\* ------------------------------------------------- properties of iteration
HasLimit == qb.kind # "none" /\ qb.limit_val # None

FromA == qb.kind # "none" /\ qb.model_cls = "A"

Disjunctive(c) ==
  \/ c.op = "OR"
  \/ c.op = "AND" /\ (c.left.op = "OR" \/ c.right.op = "OR")

\* C1: a query or scan started from subtype A, whatever sort-key predicate,
\* limit, direction or user filter (a disjunction included) was chained,
\* never yields an item whose stored discriminator is not A's value.
C1_DiscriminatorIsolation ==
  FromA => \A i \in 1..Len(yielded) : yielded[i].data["type"] = PyStr("A")

\* an A query with a disjunctive user filter ran to its end over a partition
\* that holds a B item, and yielded something
C1_Witness ==
  /\ FromA /\ qb.kind = "query" /\ it.pc = "done"
  /\ Disjunctive(qb.user_filter_condition)
  /\ Len(yielded) >= 1
  /\ \E i \in store : i["pk"] = N(1) /\ i["type"] = S("B")

\* C2: for every n passed to limit(n), the iteration yields at most n items,
\* however many items match and however the store pages them.
C2_LimitBound ==
  HasLimit => Len(yielded) <= qb.limit_val[2]

\* C3: pages are requested on demand only: no request before the first
\* item is pulled, requests are issued only from inside a pull, and none is
\* issued once limit(n) items have been yielded.
C3_Lazy ==
  /\ [](it.pc \in {"idle", "created"} => requests = 0)
  /\ [][requests' # requests =>
          /\ it.pc = "fetching"
          /\ ~(HasLimit /\ Len(yielded) >= qb.limit_val[2])]_vars

\* what holds of limit(n) for n >= 1: at most n items, and no request once
\* n items were yielded
LimitHonouredWhenPositive ==
  (HasLimit /\ qb.limit_val[2] >= 1) =>
    /\ Len(yielded) <= qb.limit_val[2]
    /\ (it.pc = "fetching" => Len(yielded) < qb.limit_val[2])

\* C4: every failure the request executor reports reaches the caller as a
\* DynanticError (or a subclass), never as the transport's own exception.
C4_ErrorsTranslated ==
  (raised # NoError /\ "original_error" \in DOMAIN raised) =>
    raised.type \in DynanticErrors

\* ------------------------------------------- specification: the executor
InitClient ==
  /\ store = {}
  /\ qb = NoBuilder
  /\ it = Idle
  /\ yielded = <<>>
  /\ requests = 0
  /\ raised = NoError
  /\ InitClientVars
  /\ InitWriteVars
  /\ InitPageVars
  /\ InitSchemaVars

NextClient ==
  \/ \E t \in Tasks : GetClient(t)
  \/ \E c \in DefaultClients : SetClient(c)
  \/ \E t \in Tasks : \E c \in OwnClients[t] : UsingClientEnter(t, c)
  \/ \E t \in Tasks, how \in {"return", "raise"} : UsingClientExit(t, how)

SpecClient == InitClient /\ [][NextClient]_vars

\* C5: a client override installed with using_client in one task is never
\* what _get_client returns in another task, however the tasks interleave;
\* a task gets its own innermost override or the process-wide default.
C5_OverrideIsolation ==
  \A t \in Tasks :
    /\ \A u \in Tasks \ {t} : got[t] \notin OwnClients[u]
    /\ got[t] \in OwnClients[t] \cup DefaultClients \cup {Boto3Client, NoClient}

\* both tasks are inside override blocks at once, t1 got its own override
\* and t2, back outside a block, got the process-wide default
C5_Witness ==
  /\ blocks["t1"] # <<>> /\ got["t1"] \in OwnClients["t1"]
  /\ client_context["t2"] \in OwnClients["t2"]
  /\ got["t2"] \in DefaultClients

Innermost(t) == blocks[t][Len(blocks[t])]

\* C6 as stated: inside a using_client(c) block c is the active
\* executor, and when the block exits (by return or by exception, nested
\* or not) the executor that was active before entry is active again.
C6_ScopedAsStated ==
  /\ [](\A t \in Tasks : blocks[t] # <<>> => ActiveClient(t) = Innermost(t).client)
  /\ [][\A t \in Tasks :
          Len(blocks'[t]) < Len(blocks[t]) =>
            ActiveClient(t)' = Innermost(t).active]_vars

\* C6, amended: inside a using_client(c) block c is the active executor
\* whatever the class-level default is, and when the block exits the
\* context value of before entry is in effect again, so that the executor
\* active before entry is active again unless the class-level default was
\* replaced in the meantime.
C6_Scoped ==
  /\ [](\A t \in Tasks : blocks[t] # <<>> => ActiveClient(t) = Innermost(t).client)
  /\ [][\A t \in Tasks :
          Len(blocks'[t]) < Len(blocks[t]) =>
            /\ ContextGet(t)' = Innermost(t).old_value
            /\ class_client' = Innermost(t).default =>
                 ActiveClient(t)' = Innermost(t).active]_vars

\* a task inside two nested blocks of different clients, entered while a
\* class-level default was set
C6_Witness ==
  /\ Len(blocks["t1"]) = 2
  /\ blocks["t1"][1].client # blocks["t1"][2].client
  /\ blocks["t1"][1].active \in DefaultClients
  /\ blocks["t1"][2].active = blocks["t1"][1].client

\* --------------------------------------- specification: one update builder
StoredA == [pk |-> N(1), sk |-> N(1), type |-> S("A"), rating |-> N(1)]

ActionPool ==
  {SetOf(f, v) : f \in {"rating", "tags"}, v \in {PyInt(1), PyStr("x"), None}}
  \cup {RemoveOf("rating")}
  \cup {AddOf(f, v) : f \in {"rating", "active", "tags"},
                      v \in {PyInt(1), PyStr("x"), PySet("x")}}
  \cup {DeleteOf("tags", v) : v \in {PySet("x"), PyInt(1)}}

WriteConditions ==
  {AttrNotExists("pk"), AttrNotExists("version"), Eq("rating", PyInt(1))}

\* the conditions of the update builder: one leaf, and a conjunction of two
UpdateConditions ==
  WriteConditions \cup {CondAnd(Eq("rating", PyInt(1)), AttrNotExists("version"))}

InitUpdate ==
  /\ store \in {{}, {StoredA}}
  /\ qb = NoBuilder
  /\ it = Idle
  /\ yielded = <<>>
  /\ requests = 0
  /\ raised = NoError
  /\ InitClientVars
  /\ InitWriteVars
  /\ InitPageVars
  /\ InitSchemaVars

NextUpdate ==
  \/ call = NoCall /\ Update(PyInt(1), PyInt(1))
  \/ \E a \in ActionPool : AppendAction(a)
  \/ \E c \in UpdateConditions : Condition(c)
  \/ ExecuteRaises
  \/ Execute

SpecUpdate == InitUpdate /\ [][NextUpdate]_vars

\* the value an action carries once coerced to its field's declared type
Coerced(a) ==
  IF GetFieldInfo(a.field_name) # ""
  THEN ValidatePython(GetFieldInfo(a.field_name), a.value)
  ELSE a.value

\* an invalid action: its value fails the declared field type, or it is an
\* ADD whose coerced value is neither a number nor a set
InvalidAction(a) ==
  /\ a.kind # "remove"
  /\ ~(a.kind = "set" /\ a.value = None)
  /\ \/ Coerced(a) = Invalid
     \/ a.kind = "add" /\ Coerced(a)[1] \notin {"int", "float", "decimal", "set"}

\* C7: executing an update builder that holds an invalid action, or no
\* action at all, raises a local value error and issues no request.
C7_InvalidUpdateIsLocal ==
  (/\ call.op = "update"
   /\ \/ call.actions = <<>>
      \/ \E i \in 1..Len(call.actions) : InvalidAction(call.actions[i]))
  => (raised = ValueError /\ ~call.sent /\ requests = 0)

\* what holds: a value that fails its declared type, an ADD of a string,
\* and an empty builder are all refused locally
RefusedLocally ==
  (/\ call.op = "update"
   /\ \/ call.actions = <<>>
      \/ \E i \in 1..Len(call.actions) :
           /\ InvalidAction(call.actions[i])
           /\ Coerced(call.actions[i])[1] # "bool")
  => (raised = ValueError /\ ~call.sent /\ requests = 0)

\* ------------------------------------- specification: conditional writes
Instances ==
  {[pk |-> PyInt(1), sk |-> PyInt(1), type |-> PyStr("A"), rating |-> PyInt(r),
    version |-> v] : r \in {1, 2}, v \in {None, PyInt(1)}}

SmallActions == {SetOf("rating", PyInt(2)), AddOf("tags", PySet("x"))}

InitWrite ==
  /\ store = {}
  /\ qb = NoBuilder
  /\ it = Idle
  /\ yielded = <<>>
  /\ requests = 0
  /\ raised = NoError
  /\ InitClientVars
  /\ InitWriteVars
  /\ InitPageVars
  /\ InitSchemaVars

NextWrite ==
  \/ \E inst \in Instances, c \in WriteConditions \cup {NoCondition} : Save(inst, c)
  \/ \E c \in WriteConditions \cup {NoCondition} : Delete(PyInt(1), PyInt(1), c)
  \/ Update(PyInt(1), PyInt(1))
  \/ \E a \in SmallActions : AppendAction(a)
  \/ \E c \in WriteConditions : Condition(c)
  \/ ExecuteRaises
  \/ Execute

SpecWrite == InitWrite /\ [][NextWrite]_vars

\* what a condition says of an item
RECURSIVE Holds(_, _)
Holds(c, item) ==
  CASE c.op = "AND" -> Holds(c.left, item) /\ Holds(c.right, item)
    [] c.op = "OR" -> Holds(c.left, item) \/ Holds(c.right, item)
    [] c.op = "NOT" -> ~Holds(c.left, item)
    [] c.op = "attribute_exists" -> c.field \in DOMAIN item
    [] c.op = "attribute_not_exists" -> c.field \notin DOMAIN item
    [] OTHER -> c.field \in DOMAIN item /\ item[c.field] = ToDynamoValue(c.value)

TheKey == [pk |-> N(1), sk |-> N(1)]

\* the step is a well-formed conditional write reaching the store
ConditionalWrite ==
  /\ requests' = requests + 1
  /\ call'.op \in {"save", "delete", "update"}
  /\ call'.condition # NoCondition
  /\ \A i, j \in 1..Len(call'.actions) :
       i # j => call'.actions[i].field_name # call'.actions[j].field_name

Failed == raised'.type = "ConditionalCheckFailedError" /\ store' = store

UnmetConditionFails ==
  (ConditionalWrite /\ ~Holds(call'.condition, StoredItem(TheKey))) => Failed

CreateOnce ==
  (ConditionalWrite /\ call'.op = "save" /\ call'.condition.op = "attribute_not_exists"
     /\ StoredItem(TheKey) = EmptyMap)
  => (raised' = NoError /\ store' # {})

\* the call before this step was a save under the same condition that
\* succeeded, so this step's save is a later one
SavedBefore ==
  /\ call.op = "save" /\ call.sent /\ raised = NoError
  /\ call.condition = call'.condition

PageItems ==
  { [pk |-> N(1), sk |-> <<"N", 1, f>>, type |-> S("A"), rating |-> N(1 + (f % 2))] :
      f \in 0..2 }

PageTables == {T \in SUBSET PageItems : Cardinality(T) <= MaxItems}

PageFilters == {Eq("rating", PyInt(1))}

\* the caller's loop: no cursor first, then the previous page's cursor
NextStartKey == IF pg.calls = 0 THEN NoCursor ELSE pg.result.last_evaluated_key

InLoop == raised = NoError /\ (IF pg.calls = 0 THEN TRUE ELSE HasMore(pg.result))

InitPage ==
  /\ store \in PageTables
  /\ qb = NoBuilder
  /\ it = Idle
  /\ yielded = <<>>
  /\ requests = 0
  /\ raised = NoError
  /\ InitClientVars
  /\ InitWriteVars
  /\ InitPageVars
  /\ InitSchemaVars

PageLoopNext ==
  \/ InLoop /\ \E e \in Faults : PageFails(NextStartKey, e)
  \/ InLoop /\ \E n \in 0..(MaxItems + 1) : Page(NextStartKey, n)

NextPage ==
  \/ Query("Base", PyInt(1), None)
  \/ Scan("Base", None)
  \/ pg.calls = 0 /\ \E n \in 0..MaxLimit : Limit(n)
  \/ pg.calls = 0 /\ Reverse
  \/ pg.calls = 0 /\ \E c \in PageFilters : Filter(c)
  \/ PageLoopNext

SpecPage == InitPage /\ [][NextPage]_vars

\* the caller keeps asking for the next page
SpecPageLoop == SpecPage /\ WF_vars(PageLoopNext)

HasResult == "count" \in DOMAIN pg.result

\* C9: page(cursor) issues exactly one request; the PageResult's count is
\* the number of its items, and it carries a cursor (has_more) exactly when
\* the response reports a LastEvaluatedKey.
C9_OnePage ==
  /\ requests = pg.calls
  /\ HasResult =>
       /\ pg.result.count = Len(pg.result.items)
       /\ Len(pg.result.items) = Len(pg.response.Items)
       /\ HasMore(pg.result) <=> "LastEvaluatedKey" \in DOMAIN pg.response

\* a page taken with a cursor, over a table of more items than the page
\* holds, that reports more
C9_Witness ==
  /\ Cardinality(store) = 2
  /\ requests = 2
  /\ "ExclusiveStartKey" \in DOMAIN pg.kwargs
  /\ HasResult /\ HasMore(pg.result)
  /\ pg.result.count = 1

\* the items the configuration matches, and those the pages returned
Matching == {i \in Candidates(pg.kwargs) : Passes(pg.kwargs, i)}
Returned == UNION {{pg.pages[p][i] : i \in 1..Len(pg.pages[p])} : p \in 1..Len(pg.pages)}

NoDuplicates ==
  \A p, q \in 1..Len(pg.pages) :
    \A i \in 1..Len(pg.pages[p]), j \in 1..Len(pg.pages[q]) :
      (p # q \/ i # j) => pg.pages[p][i] # pg.pages[q][j]

LoopDone == pg.calls >= 1 /\ HasResult /\ ~HasMore(pg.result)

\* C10: the page loop returns every matching item exactly once (the pages
\* are pairwise disjoint and their union is the full result set) and it
\* terminates.
C10_PageLoop ==
  /\ [](NoDuplicates /\ (LoopDone => Returned = Matching))
  /\ (pg.calls >= 1) ~> (LoopDone \/ raised # NoError)

\* what holds: over sort keys a binary float holds exactly, the loop returns
\* every matching item exactly once and ends
ExactKeys == \A i \in store : i.sk[3] # 2

PageLoopOverExactKeys ==
  /\ [](ExactKeys => (NoDuplicates /\ (LoopDone => Returned = Matching)))
  /\ (ExactKeys /\ pg.calls >= 1) ~> (LoopDone \/ raised # NoError)

\* ------------------------------------------------- class declaration
\* a field of a class body: its name and its json_schema_extra
FieldOf(n, extra) == [name |-> n, extra |-> extra]

\* the markers Key(), SortKey(), Discriminator(), GSIKey(i), GSISortKey(i)
\* leave in json_schema_extra
KeyMarker == [m \in {"_dynamo_pk"} |-> "true"]
SortKeyMarker == [m \in {"_dynamo_sk"} |-> "true"]
DiscriminatorMarker == [m \in {"_dynamo_discriminator"} |-> "true"]
GSIKeyMarker(i) == [m \in {"_dynamo_gsi_pk"} |-> i]
GSISortKeyMarker(i) == [m \in {"_dynamo_gsi_sk"} |-> i]

\* the scan's locals before the first field
ScanStart ==
  [pk_name |-> None, sk_name |-> None, discriminator_field |-> None,
   gsi_keys |-> EmptyMap, error |-> FALSE]

DefinitionError(acc) == [acc EXCEPT !.error = TRUE]

\* `if extra.get("_dynamo_pk"): ... elif extra.get("_dynamo_sk"): ...`
ScanKeys(acc, f) ==
  IF acc.error THEN acc
  ELSE IF "_dynamo_pk" \in DOMAIN f.extra
  THEN (IF acc.pk_name # None THEN DefinitionError(acc)
        ELSE [acc EXCEPT !.pk_name = PyStr(f.name)])
  ELSE IF "_dynamo_sk" \in DOMAIN f.extra
  THEN (IF acc.sk_name # None THEN DefinitionError(acc)
        ELSE [acc EXCEPT !.sk_name = PyStr(f.name)])
  ELSE acc

\* `if extra.get("_dynamo_discriminator"): ...`
ScanDiscriminator(acc, f) ==
  IF acc.error \/ "_dynamo_discriminator" \notin DOMAIN f.extra THEN acc
  ELSE IF acc.discriminator_field # None THEN DefinitionError(acc)
  ELSE [acc EXCEPT !.discriminator_field = PyStr(f.name)]

\* gsi_keys[index_name][part] = field_name, an error when it is set already
SetGsiKey(acc, i, part, n) ==
  IF i \in DOMAIN acc.gsi_keys /\ part \in DOMAIN acc.gsi_keys[i] THEN DefinitionError(acc)
  ELSE [acc EXCEPT !.gsi_keys =
          Put(@, i, Put(IF i \in DOMAIN @ THEN @[i] ELSE EmptyMap, part, n))]

\* `if "_dynamo_gsi_pk" in extra: ...` then `if "_dynamo_gsi_sk" in extra: ...`
ScanGsi(acc, f, marker, part) ==
  IF acc.error \/ marker \notin DOMAIN f.extra THEN acc
  ELSE SetGsiKey(acc, f.extra[marker], part, f.name)

\* one turn of the loop over model_fields
ScanField(acc, f) ==
  IF f.extra = EmptyMap THEN acc
  ELSE ScanGsi(ScanGsi(ScanDiscriminator(ScanKeys(acc, f), f),
                       f, "_dynamo_gsi_pk", "pk"),
               f, "_dynamo_gsi_sk", "sk")

RECURSIVE ScanFields(_, _)
ScanFields(acc, fields) ==
  IF fields = <<>> \/ acc.error THEN acc
  ELSE ScanFields(ScanField(acc, Head(fields)), Tail(fields))

\* `if not pk_name:` the keys are inherited from the first base with a _meta
InheritKeys(acc, base_meta) ==
  IF acc.pk_name # None \/ base_meta = EmptyMap THEN acc
  ELSE [acc EXCEPT !.pk_name = PyStr(base_meta.pk_name),
                   !.sk_name = IF acc.sk_name = None THEN base_meta.sk_name ELSE @]

\* step 4: every index needs its partition key
GsiComplete(gsi_keys) == \A i \in DOMAIN gsi_keys : "pk" \in DOMAIN gsi_keys[i]

GsiDefinitions(gsi_keys) ==
  [i \in DOMAIN gsi_keys |->
     [index_name |-> i, pk_name |-> gsi_keys[i]["pk"],
      sk_name |-> IF "sk" \in DOMAIN gsi_keys[i] THEN PyStr(gsi_keys[i]["sk"]) ELSE None]]

\* the ModelOptions a class with no Meta of its own copies from a base
InheritedOptions(base, base_meta, is_base, parent) ==
  [table_name |-> base_meta.table_name, pk_name |-> base_meta.pk_name,
   sk_name |-> base_meta.sk_name, gsi_definitions |-> base_meta.gsi_definitions,
   discriminator_field |-> base_meta.discriminator_field,
   entity_registry |-> base_meta.entity_registry,
   is_base_entity |-> is_base, parent_model |-> parent,
   discriminator_value |-> None]

\* step 5: the ModelOptions built from the scan; the registry is a new dict
ScannedOptions(name, acc) ==
  [table_name |-> "table", pk_name |-> acc.pk_name[2], sk_name |-> acc.sk_name,
   gsi_definitions |-> GsiDefinitions(acc.gsi_keys),
   discriminator_field |-> acc.discriminator_field,
   entity_registry |-> name,
   is_base_entity |-> (acc.discriminator_field # None),
   parent_model |-> "", discriminator_value |-> None]

\* the outcome of DynamoMeta.__new__: an error's type, or the class's _meta
\*   base_meta: the _meta of the base, EmptyMap for DynamoModel itself
\*   pending:   the base carries register()'s _pending_parent_model marker
\*   meta_cls:  "none" (no inner Meta), "bare" (Meta without table_name), "table"
\*   acc:       the scan of model_fields, the keys inherited when none was found
MetaOutcome(name, base, base_meta, pending, meta_cls, acc) ==
  CASE pending -> [error |-> "AttributeError"]
    [] meta_cls = "none" /\ base_meta = EmptyMap -> [error |-> "ValueError"]
    [] meta_cls = "none" /\ base_meta.is_base_entity ->
         [error |-> "", meta |-> InheritedOptions(base, base_meta, FALSE, base)]
    [] meta_cls = "none" ->
         [error |-> "", meta |-> InheritedOptions(base, base_meta, base_meta.is_base_entity, "")]
    [] meta_cls = "bare" -> [error |-> "ValueError"]
    [] acc.error \/ acc.pk_name = None \/ ~GsiComplete(acc.gsi_keys) ->
         [error |-> "ValueError"]
    [] OTHER -> [error |-> "", meta |-> ScannedOptions(name, acc)]

\* the class statement's namespace: DynamoModel is the root, the classes
\* are named in the order of their definition
ClassNames == <<"Base", "Sub", "Leaf", "Other">>

\* a subclass's model_fields: the base's, a redeclared field in its place
WithField(fields, f) ==
  IF \E i \in 1..Len(fields) : fields[i].name = f.name
  THEN [i \in 1..Len(fields) |-> IF fields[i].name = f.name THEN f ELSE fields[i]]
  ELSE Append(fields, f)

RECURSIVE ModelFields(_, _)
ModelFields(inherited, own) ==
  IF own = <<>> THEN inherited
  ELSE ModelFields(WithField(inherited, Head(own)), Tail(own))

BaseMeta(base) == IF base = "DynamoModel" THEN EmptyMap ELSE defs[base].meta
BaseFields(base) == IF base = "DynamoModel" THEN <<>> ELSE defs[base].model_fields

\* issubclass(sub, cls)
RECURSIVE IsSubclass(_, _)
IsSubclass(sub, cls) ==
  \/ sub = cls
  \/ /\ sub # "DynamoModel"
     /\ IsSubclass(defs[sub].base, cls)

\* `class name(base): [class Meta: ...] own...` runs DynamoMeta.__new__; a
\* definition that raises binds no class
DefineClass(max, base, meta_cls, own) ==
  /\ Cardinality(DOMAIN defs) < max
  /\ Cardinality(DOMAIN defs) < Len(ClassNames)
  /\ \E name \in {ClassNames[Cardinality(DOMAIN defs) + 1]},
        fields \in {ModelFields(BaseFields(base), own)} :
       \E out \in {MetaOutcome(name, base, BaseMeta(base),
                               IF base = "DynamoModel" THEN FALSE ELSE defs[base].pending,
                               meta_cls,
                               InheritKeys(ScanFields(ScanStart, fields), BaseMeta(base)))} :
         /\ last' = [op |-> "define", name |-> name, base |-> base,
                     meta_cls |-> meta_cls, model_fields |-> fields,
                     error |-> out.error]
         /\ IF out.error # "" THEN UNCHANGED <<defs, registries>>
            ELSE /\ defs' = Put(defs, name,
                                [base |-> base, model_fields |-> fields,
                                 meta |-> out.meta, pending |-> FALSE])
                 /\ registries' = IF out.meta.entity_registry = name
                                  THEN Put(registries, name, EmptyMap)
                                  ELSE registries
  /\ UNCHANGED <<iterVars, clientVars, writeVars, pageVars>>

\* the dict cls._meta.entity_registry refers to
RegistryOf(cls) == registries[defs[cls].meta.entity_registry]

\* register()'s injected default: the discriminator field of the subclass
\* becomes a plain FieldInfo, without json_schema_extra
WithDefault(fields, n) ==
  [i \in 1..Len(fields) |->
     IF fields[i].name = n THEN FieldOf(n, EmptyMap) ELSE fields[i]]

\* a register_entity that stores the class before it raises
OverwriteEntity(registry, discriminator_value, entity_class) ==
  [error |-> IF discriminator_value \in DOMAIN registry THEN "ValueError" ELSE "",
   registry |-> Put(registry, discriminator_value, entity_class)]

\* ModelOptions.register_entity: a value already registered raises, any other
\* value is stored
RegisterEntity(registry, discriminator_value, entity_class) ==
  IF discriminator_value \in DOMAIN registry
  THEN [error |-> "ValueError", registry |-> registry]
  ELSE [error |-> "", registry |-> Put(registry, discriminator_value, entity_class)]

\* cls.register(value)(subclass): the decorator marks the subclass, then
\* register_entity stores it; a success sets the subclass's discriminator
\* value, parent and field default
Register(cls, value, subclass) ==
  /\ IF defs[cls].meta.discriminator_field = None \/ ~IsSubclass(subclass, cls)
     THEN /\ last' = [op |-> "register", cls |-> cls, value |-> value,
                      subclass |-> subclass, error |-> "ValueError"]
          /\ UNCHANGED <<defs, registries>>
     ELSE \E out \in {RegisterEntity(RegistryOf(cls), value, subclass)} :
            /\ last' = [op |-> "register", cls |-> cls, value |-> value,
                        subclass |-> subclass, error |-> out.error]
            /\ registries' = [registries EXCEPT ![defs[cls].meta.entity_registry] =
                                out.registry]
            /\ defs' =
                 IF out.error # ""
                 THEN [defs EXCEPT ![subclass].pending = TRUE]
                 ELSE [defs EXCEPT ![subclass].pending = TRUE,
                                   ![subclass].meta.discriminator_value = PyStr(value),
                                   ![subclass].meta.parent_model = cls,
                                   ![subclass].model_fields =
                                      WithDefault(@, defs[cls].meta.discriminator_field[2])]
  /\ UNCHANGED <<iterVars, clientVars, writeVars, pageVars>>

\* cls._deserialize_item(raw_data), as get, query and scan call it
Deserialize(cls, raw_data) ==
  /\ last' = [op |-> "deserialize", cls |-> cls, raw_data |-> raw_data,
              entity |-> ResolveEntity(defs[cls].meta, RegistryOf(cls), cls, raw_data).cls]
  /\ UNCHANGED <<defs, registries>>
  /\ UNCHANGED <<iterVars, clientVars, writeVars, pageVars>>

\* ------------------------------------------- registration and resolution
MaxClasses == 2

\* class bodies: a polymorphic base, a plain model, a subclass adding nothing
RegistryBodies ==
  {<<FieldOf("id", KeyMarker), FieldOf("kind", DiscriminatorMarker)>>,
   <<FieldOf("id", KeyMarker)>>,
   <<>>}

DiscriminatorValues == {"", "a"}

\* raw field maps, with and without a value for the discriminator field
RawItems ==
  {[id |-> PyStr("1")]}
    \cup {[id |-> PyStr("1"), kind |-> PyStr(v)] : v \in DiscriminatorValues}

InitRegistry == InitClient

NextRegistry ==
  \/ \E base \in DOMAIN defs \cup {"DynamoModel"}, meta_cls \in {"none", "table"},
        own \in RegistryBodies :
       DefineClass(MaxClasses, base, meta_cls, own)
  \/ \E cls \in DOMAIN defs, subclass \in DOMAIN defs, value \in DiscriminatorValues :
       Register(cls, value, subclass)
  \/ \E cls \in DOMAIN defs, raw_data \in RawItems :
       Deserialize(cls, raw_data)

SpecRegistry == InitRegistry /\ [][NextRegistry]_vars

\* the type the resolution is to instantiate: on a polymorphic base the
\* registered subtype of the map's discriminator value, else the class itself
RegisteredEntity(cls, raw_data) ==
  IF /\ defs[cls].meta.is_base_entity
     /\ defs[cls].meta.discriminator_field[2] \in DOMAIN raw_data
     /\ raw_data[defs[cls].meta.discriminator_field[2]][2] \in DOMAIN RegistryOf(cls)
  THEN RegistryOf(cls)[raw_data[defs[cls].meta.discriminator_field[2]][2]]
  ELSE cls

\* C11: _deserialize_item on a polymorphic base instantiates the subtype
\* registered under the map's discriminator value, the base when the value is
\* absent or unregistered; on every other class it instantiates that class
C11_Resolution ==
  last.op = "deserialize" => last.entity = RegisteredEntity(last.cls, last.raw_data)

\* the reasons register() names for a rejection
Unregistrable(cls, value, subclass) ==
  \/ defs[cls].meta.discriminator_field = None
  \/ ~IsSubclass(subclass, cls)
  \/ value \in DOMAIN RegistryOf(cls)

\* C12: register(v) is rejected when the base has no discriminator field,
\* when the type is not a subclass of the base, or when v is registered
\* already, and a rejected registration changes no registry
C12_RejectedRegistration ==
  [][last'.op = "register" =>
       /\ Unregistrable(last'.cls, last'.value, last'.subclass)
            => last'.error = "ValueError"
       /\ last'.error # "" => registries' = registries]_vars

\* C12 witness: a value owned by one class was refused to another class
C12_Witness ==
  /\ last.op = "register"
  /\ last.error = "ValueError"
  /\ IsSubclass(last.subclass, last.cls)
  /\ last.value \in DOMAIN RegistryOf(last.cls)
  /\ RegistryOf(last.cls)[last.value] # last.subclass

\* a class a successful register() has stored under a discriminator value
Registered(c) == defs[c].meta.discriminator_value # None

\* C13: a base and each of its registered subtypes refer to one and the same
\* registry, so a registration made through either is seen through the other
C13_SharedRegistry ==
  \A c \in DOMAIN defs :
    Registered(c) =>
      defs[c].meta.entity_registry = defs[defs[c].meta.parent_model].meta.entity_registry

\* ------------------------------------------------------------ declarations
\* what a field of a class body is declared with: nothing, or one marker
Extras ==
  {EmptyMap, KeyMarker, SortKeyMarker, DiscriminatorMarker,
   GSIKeyMarker("idx"), GSISortKeyMarker("idx")}

\* class bodies of up to two fields
OwnBodies ==
  {<<>>} \cup {<<FieldOf("id", e)>> : e \in Extras}
         \cup {<<FieldOf("id", e[1]), FieldOf("ref", e[2])>> : e \in Extras \X Extras}

InitDeclare == InitClient

NextDeclare ==
  \E base \in DOMAIN defs \cup {"DynamoModel"}, meta_cls \in {"none", "bare", "table"},
     own \in OwnBodies :
    DefineClass(MaxClasses, base, meta_cls, own)

SpecDeclare == InitDeclare /\ [][NextDeclare]_vars

\* the fields of a declaration that carry marker m (for index i, if any)
Marked(fields, m) == {k \in 1..Len(fields) : m \in DOMAIN fields[k].extra}

\* a declaration the definition is to refuse: a marker twice, no primary
\* key of its own or from its base, an index without its partition key
Malformed(fields, base) ==
  \/ \E m \in {"_dynamo_pk", "_dynamo_sk", "_dynamo_discriminator",
               "_dynamo_gsi_pk", "_dynamo_gsi_sk"} :
       Cardinality(Marked(fields, m)) > 1
  \/ Marked(fields, "_dynamo_pk") = {} /\ base = "DynamoModel"
  \/ Marked(fields, "_dynamo_gsi_sk") # {} /\ Marked(fields, "_dynamo_gsi_pk") = {}

\* C14: a declaration with two primary-key, sort-key or discriminator
\* markers, without a primary key, with two partition or sort keys for one
\* index, or with an index sort key but no partition key raises a definition
\* error and binds no class
C14_Declarations ==
  (last.op = "define" /\ Malformed(last.model_fields, last.base))
    => (last.error = "ValueError")

\* ---------------------------------------------- the compiled update request
\* the place of a clause keyword in an update expression
KindRank(k) == CASE k = "set" -> 1 [] k = "remove" -> 2 [] k = "add" -> 3 [] OTHER -> 4

\* the kind an action takes effect as: set(field, None) removes the field
EffectiveKind(a) == IF a.kind = "set" /\ a.value = None THEN "remove" ELSE a.kind

\* the fields of the chained actions of effective kind k, in chaining order
ChainedFields(actions, k) ==
  LET sel == SelectSeq(actions, LAMBDA a : EffectiveKind(a) = k)
  IN [i \in 1..Len(sel) |-> sel[i].field_name]

\* the fields the k clauses of a request's update expression name, in order
ClauseFields(req, k) ==
  LET sel == SelectSeq(req.UpdateExpression, LAMBDA c : c.t = k)
  IN [i \in 1..Len(sel) |-> req.ExpressionAttributeNames[sel[i].name]]

\* an executed update: call holds the chain, request what was sent
Executed == call.op = "update" /\ call.sent

\* C15: the update expression sent has its clauses in the order SET, REMOVE,
\* ADD, DELETE whatever the chaining order; set(field, None) is a REMOVE of
\* the field; the actions of one kind keep their chaining order
C15_ClauseOrder ==
  Executed =>
    /\ \A i, j \in 1..Len(request.UpdateExpression) :
         i < j => KindRank(request.UpdateExpression[i].t)
                    <= KindRank(request.UpdateExpression[j].t)
    /\ \A k \in {"set", "remove", "add", "delete"} :
         ClauseFields(request, k) = ChainedFields(call.actions, k)

\* C15 witness: an ADD chained before a set(None) was sent after its REMOVE
C15_Witness ==
  /\ Executed
  /\ raised = NoError
  /\ Len(call.actions) = 2
  /\ call.actions[1].kind = "add"
  /\ call.actions[2].kind = "set" /\ call.actions[2].value = None
  /\ request.UpdateExpression[1].t = "remove"
  /\ request.UpdateExpression[2].t = "add"

\* the two halves of an executed update's placeholder maps: what _compile
\* numbered for the actions, what compile_condition numbered for the condition
ActionNames == UpdateNames(Ordered(call.actions))
ActionValues == UpdateValues(Ordered(call.actions))
ConditionNames == Arg(CompileCondition(call.condition), "ExpressionAttributeNames", EmptyMap)
ConditionValues == Arg(CompileCondition(call.condition), "ExpressionAttributeValues", EmptyMap)

\* the request's map m has every entry of part
Contains(m, part) == \A k \in DOMAIN part : k \in DOMAIN m /\ m[k] = part[k]

\* C16: in an update with actions and a condition the placeholders of the
\* actions and those of the condition are disjoint, and the maps sent hold
\* every entry of both
C16_PlaceholdersDisjoint ==
  (Executed /\ call.condition # NoCondition) =>
    /\ DOMAIN ActionNames \cap DOMAIN ConditionNames = {}
    /\ DOMAIN ActionValues \cap DOMAIN ConditionValues = {}
    /\ Contains(Arg(request, "ExpressionAttributeNames", EmptyMap), ActionNames)
    /\ Contains(Arg(request, "ExpressionAttributeNames", EmptyMap), ConditionNames)
    /\ Contains(Arg(request, "ExpressionAttributeValues", EmptyMap), ActionValues)
    /\ Contains(Arg(request, "ExpressionAttributeValues", EmptyMap), ConditionValues)

\* C16 witness: two actions with values and a condition of two leaves, one
\* of them with a value, were sent in one request
C16_Witness ==
  /\ Executed
  /\ raised = NoError
  /\ Cardinality(DOMAIN ActionValues) = 2
  /\ call.condition # NoCondition
  /\ Cardinality(DOMAIN ConditionNames) = 2
  /\ ConditionValues # EmptyMap
  /\ Cardinality(DOMAIN request.ExpressionAttributeNames) = 4

\* ------------------------------------------------- operations on one key
\* what a caller passes as sort key: nothing, or a value of the key's type
\* or of another type, falsy values among them
SuppliedSortKeys == {None, PyInt(0), PyInt(1), PyStr("")}

StoredZero == [pk |-> N(1), sk |-> N(0), type |-> S("A"), rating |-> N(1)]

InitKey ==
  /\ store \in {{}, {StoredA}, {StoredZero}}
  /\ qb = NoBuilder
  /\ it = Idle
  /\ yielded = <<>>
  /\ requests = 0
  /\ raised = NoError
  /\ InitClientVars
  /\ InitWriteVars
  /\ InitPageVars
  /\ InitSchemaVars

NextKey ==
  \/ \E sk \in SuppliedSortKeys : Get(PyInt(1), sk)
  \/ \E sk \in SuppliedSortKeys : Delete(PyInt(1), sk, NoCondition)
  \/ \E sk \in SuppliedSortKeys : Update(PyInt(1), sk)
  \/ \E a \in {SetOf("rating", PyInt(1)), RemoveOf("rating")} : AppendAction(a)
  \/ ExecuteRaises
  \/ Execute

SpecKey == InitKey /\ [][NextKey]_vars

\* C17: the key that get, delete and update send holds the partition key,
\* and the sort key exactly when the schema has one and the caller gave a
\* value, whatever the value
C17_KeySent ==
  (call.op \in {"get", "delete", "update"} /\ call.sent) =>
    /\ Meta("A").pk_name \in DOMAIN request.Key
    /\ (DOMAIN request.Key # {Meta("A").pk_name})
         <=> (Meta("A").sk_name # None /\ call.sk # None)

\* ------------------------------------------------------- chained filters
\* the conditions a user filter is the conjunction of
RECURSIVE Conjuncts(_)
Conjuncts(c) ==
  CASE c = NoCondition -> {}
    [] c.op = "AND" -> Conjuncts(c.left) \cup Conjuncts(c.right)
    [] OTHER -> {c}

\* the condition c, compiled on its own, evaluated on a deserialized item
Satisfies(c, data) ==
  EvalExpression(CompileCondition(c).ConditionExpression, ToDynamo(data),
                 Arg(CompileCondition(c), "ExpressionAttributeNames", EmptyMap),
                 Arg(CompileCondition(c), "ExpressionAttributeValues", EmptyMap))

\* every item handed out satisfies each of the conditions filtered on
YieldedSatisfyFilters ==
  qb.kind # "none" =>
    \A i \in 1..Len(yielded) :
      \A c \in Conjuncts(qb.user_filter_condition) : Satisfies(c, yielded[i].data)

\* a step that changes the user filter adds one condition to the conjunction
FilterConjoins ==
  (qb.kind # "none" /\ qb'.kind # "none"
     /\ qb'.user_filter_condition # qb.user_filter_condition) =>
    \E c \in FilterPool :
      /\ qb'.user_filter_condition =
           IF qb.user_filter_condition = NoCondition THEN c
           ELSE CondAnd(qb.user_filter_condition, c)
      /\ Conjuncts(qb'.user_filter_condition) = Conjuncts(qb.user_filter_condition) \cup {c}

\* C18: filter(c1) ... filter(ck) leaves the conjunction c1 AND ... AND ck as
\* the user filter (the first call sets it, each later call ANDs onto it),
\* it is sent ANDed with the discriminator filter, and every item returned
\* satisfies every ci
C18_FiltersConjoined == [](YieldedSatisfyFilters) /\ [][FilterConjoins]_vars

\* C18 witness: two different filters were chained on a subtype's builder and
\* an item satisfying both was returned while another stored item was not
C18_Witness ==
  /\ qb.kind # "none"
  /\ qb.model_cls = "A"
  /\ Cardinality(Conjuncts(qb.user_filter_condition)) = 2
  /\ Len(yielded) = 1
  /\ it.pc = "done"
  /\ Cardinality(store) = 2

\* ------------------------------------------------- builders and indexes
\* the index names a caller passes: defined ones, an undefined one, the
\* empty string, and none at all
IndexNames == {PyStr("by_ref"), PyStr("by_date"), PyStr("missing"), PyStr("")}

InitIndex == InitClient

NextIndex ==
  \/ \E cls \in {"A", "Plain"}, index_name \in IndexNames \cup {None} :
       Query(cls, PyInt(1), index_name) \/ Scan(cls, index_name)
  \/ \E o \in {"=", "<>", "<", "<=", ">", ">="}, v \in SortKeyValues : SortKeyCompare(o, v)
  \/ StartsWith(PyInt(1))
  \/ Between(PyInt(1), PyInt(2))
  \/ \E index_name \in IndexNames : UsingIndex(index_name)

SpecIndex == InitIndex /\ [][NextIndex]_vars

SortKeyMethods == {"starts_with", "between", "gt", "lt", "ge", "le", "eq", "ne"}

\* a query builder whose resolved table or index has no sort key
WithoutSortKey == qb.kind = "query" /\ qb.sk_name = None

\* the step left the sort-key predicate and the placeholder tables alone
PredicateUnchanged ==
  /\ qb'.kind = "query"
  /\ qb'.sk_condition = qb.sk_condition
  /\ qb'.expression_names = qb.expression_names
  /\ qb'.expression_values = qb.expression_values

\* C19: on a query builder without sort key every sort-key method raises
\* 'Index does not have a Sort Key defined' and leaves the sort-key predicate
\* and the placeholder tables as they were; only using_index, which binds
\* another index, takes such a builder elsewhere
C19_SortKeyRequired ==
  [][WithoutSortKey =>
       \/ /\ raised' \in {NoSortKeyDefined(m) : m \in SortKeyMethods}
          /\ PredicateUnchanged
       \/ /\ raised' \in {GsiNotDefined(n) : n \in IndexNames}
          /\ qb' = qb
       \/ /\ raised' = NoError
          /\ HasGsi(Meta(qb.model_cls), qb'.index_name)
          /\ qb' = QueryUsingIndex(qb, qb'.index_name)]_vars

\* C19 witness: between() was refused on an index that has no sort key,
\* after eq() had set a predicate on one that has
C19_Witness ==
  /\ WithoutSortKey
  /\ raised = NoSortKeyDefined("between")
  /\ qb.index_name = PyStr("by_ref")
  /\ qb.sk_condition # <<>>

\* C20: a builder's index is one of the schema's index map: a construction
\* and a using_index that name an index not in the map fail, and a failed
\* using_index leaves the builder as it was
C20_IndexDefined ==
  qb.kind # "none" =>
    (qb.index_name = None \/ HasGsi(Meta(qb.model_cls), qb.index_name))

\* ------------------------------------------------------------------ first()
\* a first() that sets the limit to 1 whatever the caller had set
ForcedLimit(b) == [b EXCEPT !.limit_val = PyInt(1)]

\* `if self.limit_val is None: self.limit_val = 1`
FirstLimit(b) == [b EXCEPT !.limit_val = IF @ = None THEN PyInt(1) ELSE @]

\* builder.first(): the limit is defaulted, then next(iter(self)) runs the
\* generator's body up to the paginator's first request; the call returns
\* at the generator's first yield, or None at its end (StopIteration)
First ==
  /\ Building
  /\ qb' = FirstLimit(qb)
  /\ it' = [it EXCEPT !.pc = "fetching", !.kwargs = Kwargs(FirstLimit(qb))]
  /\ UNCHANGED <<store, yielded, requests, raised>>
  /\ UNCHANGED <<clientVars, writeVars, pageVars, schemaVars>>

InitFirst == InitIter

NextFirst ==
  \/ \E cls \in {"Base", "A"} : Query(cls, PyInt(1), None) \/ Scan(cls, None)
  \/ \E n \in 0..MaxLimit : Limit(n)
  \/ Reverse
  \/ \E c \in FilterPool : Filter(c)
  \/ First
  \/ \E e \in Faults : FetchFails(e)
  \/ \E n \in 0..(MaxItems + 1) : FetchPage(n)

SpecFirst == InitFirst /\ [][NextFirst]_vars

\* first() has returned: the generator yielded once or ended
FirstReturned == it.pc \in {"suspended", "done"}

\* the items the builder's request matches, in traversal order
FirstMatches == Filtered(Remaining(it.kwargs), it.kwargs)

\* the step is a call of first()
FirstCalled == it.pc = "idle" /\ it'.pc # "idle"

FaultMessages == {<<"rate exceeded">>, <<"">>}

FaultResponses ==
  {ErrorResponse(c, m) : c \in ErrorCodes \cup {"", "Unknown"}, m \in FaultMessages}
  \cup {[Error |-> [Code |-> c]] : c \in ErrorCodes}
  \cup {[Error |-> [Message |-> m]] : m \in FaultMessages}
  \cup {[Error |-> EmptyMap], EmptyMap}

TableNames == {None, PyStr(""), PyStr("table")}

\* a request made inside `with handle_dynamo_errors(table_name=...)` fails
\* with fault e
RequestFails(table_name, e) ==
  /\ requests < MaxRequests
  /\ requests' = requests + 1
  /\ raised' = HandleDynamoErrors(table_name, e)
  /\ UNCHANGED <<store, qb, it, yielded>>
  /\ UNCHANGED <<clientVars, writeVars, pageVars, schemaVars>>

InitErrors == InitClient

NextErrors ==
  \E table_name \in TableNames, r \in FaultResponses :
    RequestFails(table_name, ClientErrorOf(r))

SpecErrors == InitErrors /\ [][NextErrors]_vars

\* the typed error of each transport fault code
TypedError(code) ==
  CASE code = "ResourceNotFoundException" -> "TableNotFoundError"
    [] code = "ConditionalCheckFailedException" -> "ConditionalCheckFailedError"
    [] code = "ProvisionedThroughputExceededException" -> "ProvisionedThroughputExceededError"
    [] code = "ThrottlingException" -> "ProvisionedThroughputExceededError"
    [] code = "RequestLimitExceeded" -> "ProvisionedThroughputExceededError"
    [] code = "ValidationException" -> "ValidationError"
    [] code = "SerializationException" -> "ValidationError"
    [] code = "ItemCollectionSizeLimitExceededException" -> "ItemCollectionSizeLimitError"
    [] code = "TransactionConflictException" -> "TransactionConflictError"
    [] code = "RequestTimeout" -> "RequestTimeoutError"
    [] code = "RequestTimeoutException" -> "RequestTimeoutError"
    [] OTHER -> "DynanticError"

\* the Error of the fault the raised error came from
FaultError == Arg(raised.original_error.response, "Error", EmptyMap)

\* the parts of a message
Parts(message) == {message[i] : i \in 1..Len(message)}

\* C22: each fault code is translated to its typed error, every other or
\* missing code to the generic DynanticError whose message carries the code
\* and the fault's message, and the fault is always kept as original_error
C22_Translation ==
  /\ [](raised # NoError =>
          /\ raised.original_error.cls = "ClientError"
          /\ raised.original_error.response \in FaultResponses
          /\ raised.type = IF "Code" \in DOMAIN FaultError
                           THEN TypedError(FaultError.Code) ELSE "DynanticError"
          /\ raised.type = "DynanticError" =>
               /\ "Code" \in DOMAIN FaultError => FaultError.Code \in Parts(raised.message)
               /\ "Message" \in DOMAIN FaultError =>
                    Parts(FaultError.Message) \subseteq Parts(raised.message))
  /\ [][raised' # raised =>
          \E table_name \in TableNames, r \in FaultResponses :
            /\ raised' = HandleDynamoErrors(table_name, ClientErrorOf(r))
            /\ raised'.original_error = ClientErrorOf(r)]_vars

\* C22 witness: the second failing request raised a timeout fault, which
\* was translated to RequestTimeoutError
C22_Witness ==
  /\ raised # NoError
  /\ raised.type = "RequestTimeoutError"
  /\ raised.original_error.response.Error.Code = "RequestTimeoutException"
  /\ requests = 2

\* --------------------------------------------------------------- serializer
\* serializer.to_dynamo(data)
ToDynamoCall(data) ==
  /\ last' = [op |-> "to_dynamo", data |-> data, result |-> ToDynamo(data)]
  /\ UNCHANGED <<defs, registries>>
  /\ UNCHANGED <<iterVars, clientVars, writeVars, pageVars>>

\* serializer.from_dynamo(item), item the result of the last to_dynamo
FromDynamoCall ==
  /\ last.op = "to_dynamo"
  /\ last' = [op |-> "from_dynamo", data |-> last.data, item |-> last.result,
              result |-> FromDynamo(last.result)]
  /\ UNCHANGED <<defs, registries>>
  /\ UNCHANGED <<iterVars, clientVars, writeVars, pageVars>>

\* the values a field may hold: scalars and sets, and lists and dicts of
\* them nested at most d deep
Scalars ==
  {None, PyInt(1), PyStr("a"), PyBool(1), PyFloat(1, 0), PyFloat(1, 1),
   PySet("a"), PyNumSet(PyInt(1)), EmptySet}

RECURSIVE Values(_)
Values(d) ==
  IF d = 0 THEN Scalars
  ELSE Values(d - 1)
         \cup {PyList(<<>>), PyDict(EmptyMap)}
         \cup {PyList(<<v>>) : v \in Values(d - 1)}
         \cup {PyDict([k \in {"k"} |-> v]) : v \in Values(d - 1)}

InitSerializer == InitClient

NextSerializer ==
  \/ \E v \in Values(MaxNesting) : ToDynamoCall([k \in {"f"} |-> v])
  \/ FromDynamoCall

SpecSerializer == InitSerializer /\ [][NextSerializer]_vars

\* the wire value is, or holds at some depth, a native set without members
RECURSIVE HoldsEmptySet(_)
HoldsEmptySet(w) ==
  CASE w[1] = "NS" -> w[2] = <<>>
    [] w[1] = "L" -> \E i \in DOMAIN w[2] : HoldsEmptySet(w[2][i])
    [] w[1] = "M" -> \E k \in DOMAIN w[2] : HoldsEmptySet(w[2][k])
    [] OTHER -> FALSE

\* C23: the encoded output of to_dynamo holds no empty native set, at the
\* top level of the item or inside a map or list
C23_NoEmptySet ==
  last.op = "to_dynamo" =>
    \A k \in DOMAIN last.result : ~HoldsEmptySet(last.result[k])

\* what holds: a field whose own value is an empty set is left out
TopLevelEmptySetDropped ==
  last.op = "to_dynamo" =>
    \A k \in DOMAIN last.data :
      IsEmptySet(last.data[k]) => k \notin DOMAIN last.result

\* the value a round trip is to give back: v itself, but for a float with
\* zero fractional part, which comes back as an integer
RECURSIVE RoundTripOf(_)
RoundTripOf(v) ==
  CASE v[1] = "float" -> IF v[3] = 0 THEN <<"int", v[2], 0>> ELSE v
    [] v[1] = "list" -> <<"list", [i \in DOMAIN v[2] |-> RoundTripOf(v[2][i])], 0>>
    [] v[1] = "dict" -> <<"dict", [k \in DOMAIN v[2] |-> RoundTripOf(v[2][k])], 0>>
    [] OTHER -> v

\* C24: from_dynamo(to_dynamo(v)) equals v in type and value, but for a
\* number with zero fractional part, which decodes as an integer
C24_RoundTrip ==
  last.op = "from_dynamo" =>
    last.result = [k \in DOMAIN last.data |-> RoundTripOf(last.data[k])]

\* the values without a set of numbers and without an empty set
RECURSIVE SetFree(_)
SetFree(v) ==
  CASE v[1] = "nset" -> FALSE
    [] v[1] = "list" -> \A i \in DOMAIN v[2] : SetFree(v[2][i])
    [] v[1] = "dict" -> \A k \in DOMAIN v[2] : SetFree(v[2][k])
    [] OTHER -> TRUE

\* what holds: the round trip gives back every value that holds no set of
\* numbers and no empty set
RoundTripWithoutNumberSets ==
  (last.op = "from_dynamo" /\ \A k \in DOMAIN last.data : SetFree(last.data[k])) =>
    last.result = [k \in DOMAIN last.data |-> RoundTripOf(last.data[k])]

\* ------------------------------------------------- sort-key predicates
\* the query builder's request has been built and handed to the paginator
QueryExecuted == qb.kind = "query" /\ it.pc \notin {"idle", "created"}

\* the placeholders the executed request's expressions refer to
RequestRefs ==
  ExprRefs(it.kwargs.KeyConditionExpression)
    \cup ExprRefs(Arg(it.kwargs, "FilterExpression", <<>>))

\* C25: the executed request carries the last sort-key predicate issued and
\* no other: its key condition is '#pk = :pk' followed by that predicate,
\* and its value placeholder table holds no placeholder of a predicate that
\* was overwritten
C25_LastPredicate ==
  QueryExecuted =>
    /\ Len(qb.sk_condition) <= 1
    /\ it.kwargs.KeyConditionExpression =
         <<CmpTok("=", "#pk", ":pk")>> \o
         (IF qb.sk_condition = <<>> THEN <<>> ELSE <<Tok("AND")>> \o qb.sk_condition)
    /\ DOMAIN it.kwargs.ExpressionAttributeValues \subseteq RequestRefs

\* what holds: the key condition is '#pk = :pk' and the last predicate
KeyConditionIsLastPredicate ==
  QueryExecuted =>
    /\ Len(qb.sk_condition) <= 1
    /\ it.kwargs.KeyConditionExpression =
         <<CmpTok("=", "#pk", ":pk")>> \o
         (IF qb.sk_condition = <<>> THEN <<>> ELSE <<Tok("AND")>> \o qb.sk_condition)

\* ------------------------------------------------------------ using_index
\* builders with and without index, with every option, switched between
\* indexes and executed
InitSwitch == InitClient

NextSwitch ==
  \/ \E cls \in {"A", "Plain"}, index_name \in IndexNames \cup {None} :
       Query(cls, PyInt(1), index_name) \/ Scan(cls, index_name)
  \/ \E o \in {"=", "<"}, v \in SortKeyValues : SortKeyCompare(o, v)
  \/ StartsWith(PyInt(1))
  \/ Between(PyInt(1), PyInt(2))
  \/ \E index_name \in IndexNames : UsingIndex(index_name)
  \/ \E n \in 1..MaxLimit : Limit(n)
  \/ Reverse
  \/ Filter(Eq("rating", PyInt(1)))
  \/ Iter
  \/ Start

SpecSwitch == InitSwitch /\ [][NextSwitch]_vars

\* the step switched the builder to another index
IndexSwitched == qb.kind # "none" /\ qb'.index_name # qb.index_name

\* the builder but for its index name, key field names and name placeholders
BesidesKeyNames(b) ==
  [b EXCEPT !.index_name = None, !.pk_name = "", !.sk_name = None,
            !.expression_names = Restrict(@, DOMAIN @ \ {"#pk", "#sk"})]

\* C26: using_index with a defined index changes only the active index name,
\* the resolved key field names and the key name placeholders '#pk' and
\* '#sk'; the value placeholders, the sort-key predicate, the limit, the
\* direction and the filters stay as they were
C26_UsingIndexFrame ==
  [][IndexSwitched =>
       /\ HasGsi(Meta(qb.model_cls), qb'.index_name)
       /\ BesidesKeyNames(qb') = BesidesKeyNames(qb)
       /\ DOMAIN qb'.expression_names = DOMAIN qb.expression_names
       /\ qb'.expression_values = qb.expression_values
       /\ qb'.sk_condition = qb.sk_condition
       /\ qb'.limit_val = qb.limit_val
       /\ qb'.scan_forward = qb.scan_forward
       /\ qb'.user_filter_condition = qb.user_filter_condition
       /\ qb.kind = "query" =>
            /\ qb'.pk_name = GetGsi(Meta(qb.model_cls), qb'.index_name).pk_name
            /\ qb'.sk_name = GetGsi(Meta(qb.model_cls), qb'.index_name).sk_name
            /\ qb'.expression_names["#pk"] = qb'.pk_name]_vars

\* C26 witness: a query built on by_date, with a sort-key predicate, a limit,
\* the reverse direction and a filter, was switched to by_ref
C26_Witness ==
  /\ qb.kind = "query"
  /\ qb.index_name = PyStr("by_ref")
  /\ qb.sk_condition # <<>>
  /\ qb.limit_val = PyInt(1)
  /\ ~qb.scan_forward
  /\ qb.user_filter_condition # NoCondition
  /\ raised = NoError

\* C27: whenever the executed request's key condition holds a sort-key
\* predicate, the builder's table or index has a sort key and '#sk' names
\* that sort key's field
C27_SortKeyBound ==
  (QueryExecuted /\ Len(it.kwargs.KeyConditionExpression) > 1) =>
    /\ HasSortKey(qb)
    /\ it.kwargs.ExpressionAttributeNames["#sk"] = qb.sk_name[2]

\* ------------------------------------------------- registry and schemas
\* C28: every entry value -> type of an entity registry names a type whose
\* schema has that value as its discriminator_value, after any sequence of
\* register calls
C28_RegistryMatchesSchema ==
  \A r \in DOMAIN registries :
    \A v \in DOMAIN registries[r] :
      defs[registries[r][v]].meta.discriminator_value = PyStr(v)

\* what holds: the schema of a registered type has the value of the type's
\* last successful registration
LastRegistrationWins ==
  (last.op = "register" /\ last.error = "") =>
    defs[last.subclass].meta.discriminator_value = PyStr(last.value)

\* ------------------------------------------- the executor of a request
\* the executor a read builder would use if it resolved it when executed
CurrentClient(b, t) == ActiveClient(t)

\* self.client of a query or scan builder: bound by __init__
BuilderClient(b, t) == b.client

\* `self.client = model_cls._get_client()` of DynamoQueryBuilder.__init__
\* and DynamoScanBuilder.__init__
BoundTo(b, client) == Merge(b, [client |-> client])

\* _get_client()'s effect on the class-level default in task t
DefaultAfterGet(t) ==
  IF ContextGet(t) = NoClient /\ class_client = NoClient
  THEN Boto3Client ELSE class_client

\* Model.query(1) or Model.scan() in task t: the builder binds the executor
\* that _get_client() returns now
ConstructIn(t, kind) ==
  /\ qb.kind = "none"
  /\ qb' = BoundTo(IF kind = "query" THEN NewQueryBuilder("Base", PyInt(1), None)
                   ELSE NewScanBuilder("Base", None),
                   ActiveClient(t))
  /\ class_client' = DefaultAfterGet(t)
  /\ raised' = NoError
  /\ UNCHANGED <<store, it, yielded, requests>>
  /\ UNCHANGED <<client_context, blocks, got>>
  /\ UNCHANGED <<writeVars, pageVars, schemaVars>>

\* the builder is executed in task t (__iter__'s self.client.get_paginator,
\* page()'s self.client.query / self.client.scan): the request goes to the
\* builder's client; the table holds no item and the response is empty
SendIn(t) ==
  /\ qb.kind # "none"
  /\ requests < MaxRequests
  /\ request' = Merge(Kwargs(qb), [client |-> BuilderClient(qb, t), task |-> t])
  /\ requests' = requests + 1
  /\ UNCHANGED <<store, qb, it, yielded, raised>>
  /\ UNCHANGED <<ub, call>>
  /\ UNCHANGED <<clientVars, pageVars, schemaVars>>

\* UpdateBuilder.execute() in task t: the key, _compile, then
\* `client = self.model_cls._get_client()` and client.update_item(**params);
\* the builder stays as it is and can be executed again
ExecuteIn(t) ==
  /\ ub.kind = "update"
  /\ ~CompileFails(ub)
  /\ requests < MaxRequests
  /\ \E req \in {Merge([TableName |-> Meta("A").table_name,
                         Key |-> ToDynamo(KeyDict("A", ub.pk, ub.sk)),
                         ReturnValues |-> "NONE"],
                        Compile(ub))} :
       /\ request' = Merge(req, [op |-> "update", client |-> ActiveClient(t), task |-> t])
       /\ \E out \in {UpdateItem(req)} :
            /\ store' = out.store
            /\ raised' = Outcome(out)
  /\ class_client' = DefaultAfterGet(t)
  /\ requests' = requests + 1
  /\ call' = Keyed(CallOf("update", ub.condition, ub.actions, TRUE), ub.pk, ub.sk)
  /\ UNCHANGED <<ub, qb, it, yielded>>
  /\ UNCHANGED <<client_context, blocks, got>>
  /\ UNCHANGED <<pageVars, schemaVars>>

\* Model.update(1, 1).set("rating", 1): an UpdateBuilder holds the model
\* class, the key and its actions, and no executor
PreparedUpdate ==
  [kind |-> "update", pk |-> PyInt(1), sk |-> PyInt(1),
   actions |-> <<SetOf("rating", PyInt(1))>>, condition |-> NoCondition]

\* no client configured, no read builder yet, an update builder at hand
InitExecutor ==
  /\ store = {}
  /\ qb = NoBuilder
  /\ it = Idle
  /\ yielded = <<>>
  /\ requests = 0
  /\ raised = NoError
  /\ InitClientVars
  /\ ub = PreparedUpdate
  /\ call = NoCall
  /\ request = EmptyMap
  /\ InitPageVars
  /\ InitSchemaVars

NextExecutor ==
  \/ \E c \in DefaultClients : SetClient(c)
  \/ \E t \in Tasks : UsingClientEnter(t, <<t, 1>>)
  \/ \E t \in Tasks : UsingClientExit(t, "return")
  \/ \E t \in Tasks, kind \in {"query", "scan"} : ConstructIn(t, kind)
  \/ \E t \in Tasks : SendIn(t)
  \/ \E t \in Tasks : ExecuteIn(t)

SpecExecutor == InitExecutor /\ [][NextExecutor]_vars

\* the step constructs a read builder, sends its request, sends an update
Constructed == qb.kind = "none" /\ qb'.kind # "none"
ReadSent == requests' = requests + 1 /\ request'.op \in {"query", "scan"}
UpdateSent == requests' = requests + 1 /\ request'.op = "update"

\* C29: a query or scan builder's request goes through the executor that
\* was active in the constructing task when the builder was constructed,
\* whatever is active when and where it is executed; an update's request
\* goes through the executor active in the executing task at execute()
C29_ExecutorBinding ==
  /\ [][Constructed => \E t \in Tasks : qb'.client = ActiveClient(t)]_vars
  /\ [][(qb.kind # "none" /\ qb'.kind # "none") => qb'.client = qb.client]_vars
  /\ [][ReadSent => request'.client = qb.client]_vars
  /\ [][UpdateSent => request'.client = ActiveClient(request'.task)]_vars

\* C29 witness: a builder constructed inside a using_client block was
\* executed after the block had exited and the default had been replaced:
\* its request went through the block's client, which is active nowhere
C29_Witness ==
  /\ request # EmptyMap
  /\ request.op = "query"
  /\ request.client = <<"t1", 1>>
  /\ \A t \in Tasks : ActiveClient(t) = <<"default", 1>>

\* ------------------------------------------------------ field names
\* pydantic's FieldInfo of a declared field: its name and its alias (None
\* when declared without one)
FieldInfo(name, alias) == [name |-> name, alias |-> alias]

\* `dynamo_name = field_info.alias or field_name`
DynamoName(field) ==
  IF Truthy(field.alias) THEN field.alias[2] ELSE field.name

\* the metaclass's instrumentation: setattr(new_cls, field_name,
\* Attr(dynamo_name)) for every field of model_fields
Instrument(model_fields) ==
  [n \in {model_fields[i].name : i \in DOMAIN model_fields} |->
     [name |-> DynamoName(CHOOSE f \in {model_fields[i] : i \in DOMAIN model_fields} :
                            f.name = n)]]

\* a model with an aliased field:
\*   pk: int = Key(); sk: int = SortKey(); rating: int;
\*   email_address: str | None = Field(None, alias="email")
AliasedModelFields ==
  <<FieldInfo("pk", None), FieldInfo("sk", None), FieldInfo("rating", None),
    FieldInfo("email_address", PyStr("email"))>>

\* Model.<field_name>: the class-level condition handle
Handle(field_name) == Instrument(AliasedModelFields)[field_name]

\* UpdateAction.__init__: `field.name if isinstance(field, Attr)`
SetVia(field_name, value) == SetOf(Handle(field_name).name, value)

\* instances of the model, as model_dump() sees them: by field name
AliasedInstances ==
  {[pk |-> PyInt(1), sk |-> PyInt(s), rating |-> PyInt(r), email_address |-> e] :
     s \in {1, 2}, r \in {1, 2}, e \in {None, PyStr("x")}}

\* conditions built from the handles
HandleConditions ==
  {AttrNotExists(Handle("email_address").name), Eq(Handle("rating").name, PyInt(1))}

InitAlias == InitWrite

NextAlias ==
  \/ \E inst \in AliasedInstances, c \in HandleConditions \cup {NoCondition} :
       Save(inst, c)
  \/ Update(PyInt(1), PyInt(1))
  \/ AppendAction(SetVia("rating", PyInt(2)))
  \/ AppendAction(SetVia("email_address", PyStr("y")))
  \/ ExecuteRaises
  \/ Execute

SpecAlias == InitAlias /\ [][NextAlias]_vars

\* save() has sent an item
Saved == call.op = "save" /\ "Item" \in DOMAIN request

\* the attribute names of the saved item that hold the field's value
StoredUnder(field) == DOMAIN request.Item \cap {field.name, DynamoName(field)}

\* C30: the attribute name under which save() stores a declared field's
\* value is the name its class-level handle, and the conditions and update
\* actions built from it, refer to; aliased fields included
C30_SameName ==
  Saved =>
    \A i \in DOMAIN AliasedModelFields :
      StoredUnder(AliasedModelFields[i]) \subseteq {Handle(AliasedModelFields[i].name).name}

\* what holds: the names agree for every field declared without alias
SameNameWithoutAlias ==
  Saved =>
    \A i \in DOMAIN AliasedModelFields :
      AliasedModelFields[i].alias = None =>
        StoredUnder(AliasedModelFields[i]) \subseteq {Handle(AliasedModelFields[i].name).name}
====
